---- MODULE Spec2Model ----
(***************************************************************************)
(* Payment-challenge and commitment-authorization protocol of hshadab/arc. *)
(*                                                                         *)
(* Part I  - the Authorization Gate: contract ArcAgentController           *)
(*           (demos/autonomous-settlement/contracts/deploy.cjs, the        *)
(*           Solidity source embedded at lines 71-212).                    *)
(* Part II - the Payment Challenge Gate: class X402Middleware              *)
(*           (unnamed/part_004, lines 11-279).                             *)
(*                                                                         *)
(* A ledger transaction is one atomic step: a revert discards every write  *)
(* the call made.  Signatures are modelled symbolically: a well-formed     *)
(* signature is the pair (signing key, digest signed); recovering it over  *)
(* the digest it signs yields the key, over any other digest it yields an  *)
(* address nobody controls.                                                *)
(***************************************************************************)
EXTENDS Integers, Sequences, FiniteSets, TLC

VARIABLES
    owner,        \* Ownable.owner(): the deployer, who is also the registered signer
    usedNonces,   \* mapping(uint256 => bool) usedNonces, as the set of keys mapped to true
    balance,      \* usdc.balanceOf(address(this)): the custody balance
    events,       \* the TransferExecuted log of the contract, oldest first
    now,          \* block.timestamp
    last,         \* the call made by the latest ledger step: arguments, pre-state, outcome
    facilitatorUrl, \* X402Middleware.config.facilitatorUrl, Null when none is configured
    chain,        \* the ledger the middleware queries: transaction hash -> transaction
    exchange,     \* the latest request to a protected route and what the middleware did
    unlocked,     \* per transaction hash, the protected calls its proof has unlocked
    agentEnv,     \* compliance agent: process.env as read when the module loads
    agentState,   \* compliance agent: "loading", "listening" or "crashed"
    clockMs,      \* Date.now() of the compliance agent's host
    settle,       \* compliance agent: per request, the locals of its handleSettle call
    issued,       \* compliance agent: the commitments signed so far, per request
    transfers,    \* compliance agent: the USDC transfers attempted so far, per request
    decided,      \* decision services: the latest decision request and its answer
    complianceChecks, \* gateway agent: the answers /compliance/check has given
    gatewayTransfers, \* gateway agent: the requests /transfer/execute has accepted
    uiEnv,        \* UI server: process.env and the prover binary's presence at load
    uiState,      \* UI server: "loading", "listening" or "crashed"
    uiAnswer,     \* UI server: the latest request and the response it was given
    witnessEnv,   \* WitnessBot: USE_REAL_GATEWAY and WITNESSBOT.hasRealWallet
    baseChain,    \* the Base Sepolia ledger: transaction hash -> transaction
    paymentReceipts, \* WitnessBot: the keys of the paymentReceipts map
    ledgerConfirmed, \* the proofs a ledger query has shown to be a payment to WitnessBot
    footage,      \* WitnessBot: the latest footage request and its answer
    proveEnv,     \* zkML proof service: which /prove handler runs, with or without fast mode
    prove,        \* zkML proof service: per /prove request, its prover process and response
    robotState,   \* DeliveryBot: robotState.budget and totalSpent in hundredths of USDC, and
                  \* the length of robotState.transactions
    sensor,       \* DeliveryBot: per /robot/process-sensor request, the await it is at
    sensorAnswer, \* DeliveryBot: the latest response to a /robot/process-sensor request
    client        \* X402Client: the request() call in progress and what it has done

gateVars == <<owner, usedNonces, balance, events, now, last>>

x402Vars == <<facilitatorUrl, chain, exchange, unlocked>>

settleVars == <<agentEnv, agentState, clockMs, settle, issued, transfers>>

decideVars == <<decided, complianceChecks, gatewayTransfers>>

uiVars == <<uiEnv, uiState, uiAnswer>>

witnessVars == <<witnessEnv, baseChain, paymentReceipts, ledgerConfirmed, footage>>

proveVars == <<proveEnv, prove>>

robotVars == <<robotState, sensor, sensorAnswer>>

clientVars == <<client>>

\* the services modelled in Parts VII and later
peerVars == <<proveVars, robotVars, clientVars>>

\* the contract, the payment gate and the services of Parts III to VI
coreVars == <<gateVars, x402Vars, settleVars, decideVars, uiVars, witnessVars>>

\* the variables of the services around the two gates
serviceVars == <<settleVars, decideVars, uiVars, witnessVars, peerVars>>

vars == <<gateVars, x402Vars, serviceVars>>

---------------------------------------------------------------------------
(* Bounds of the model *)

MaxNonce == 1
MaxAmount == 1
MaxCustody == 1
MaxTicks == 1
UintBits == 13
MaxOverpay == 0
MaxUnlocks == 2
MaxClockTicks == 1
MaxProveRequests == 2
MaxSensorRequests == 2
MaxClientCalls == 2

---------------------------------------------------------------------------
(* Program constants *)

AUTHORIZED == 1
FreshnessWindow == 3600
\* options.amount '0.001' in units of 10^-6 USDC: ethers.parseUnits('0.001', 6)
RequiredAmount == 1000

MaxUint == 2 ^ UintBits - 1

Controller == "controller"
Accounts == {"deployer", "mallory"}
Unknown == "unknown"
NoAccount == "none"

InitialTime == 2 * FreshnessWindow

Nonces == 1 .. MaxNonce
Amounts == 1 .. MaxAmount
Decisions == {0, 1, 2}
ProofHashes == {"h1"}
Timestamps == {InitialTime - FreshnessWindow, MaxUint}

ThisDomain ==
    [name |-> "ArcAgentController", version |-> "1", chainId |-> 5042002,
     verifyingContract |-> Controller]
OtherDomain ==
    [name |-> "ArcAgentController", version |-> "1", chainId |-> 5042002,
     verifyingContract |-> "otherController"]
Domains == {ThisDomain, OtherDomain}

Commitments ==
    [proofHash : ProofHashes, decision : Decisions,
     timestamp : Timestamps, nonce : Nonces]

NoCommitment == [proofHash |-> "none", decision |-> 0, timestamp |-> 0, nonce |-> 0]

---------------------------------------------------------------------------
(* EIP-712 hashing and ECDSA recovery *)

\* keccak256(abi.encode(COMMITMENT_TYPEHASH, proofHash, decision, timestamp, nonce))
StructHash(c) ==
    [proofHash |-> c.proofHash, decision |-> c.decision,
     timestamp |-> c.timestamp, nonce |-> c.nonce,
     typeHash |-> "Commitment(bytes32 proofHash,uint256 decision,uint256 timestamp,uint256 nonce)"]

\* _hashTypedDataV4(structHash) of the contract whose EIP-712 domain is d
HashTypedDataV4(d, structHash) == [domain |-> d, struct |-> structHash]

MalformedSig ==
    [kind |-> "malformed", key |-> NoAccount,
     digest |-> HashTypedDataV4(ThisDomain, StructHash(NoCommitment))]

\* the signing side (shared/arc-utils): field lists handed to wallet.signTypedData
EIP712_SIMPLE_COMMITMENT_TYPES ==
    <<[name |-> "proofHash", type |-> "bytes32"], [name |-> "decision", type |-> "uint8"],
      [name |-> "timestamp", type |-> "uint256"], [name |-> "nonce", type |-> "uint256"]>>

EIP712_CONTROLLER_COMMITMENT_TYPES ==
    <<[name |-> "proofHash", type |-> "bytes32"], [name |-> "decision", type |-> "uint256"],
      [name |-> "timestamp", type |-> "uint256"], [name |-> "nonce", type |-> "uint256"]>>

\* ARC_CONFIG.chainId
ArcChainId == 5042002

\* robotState.budget at load and after /robot/reset: 1.00 USDC, in hundredths
InitialBudget == 100

\* WITNESSBOT.price: 0.02 USDC, in hundredths
WitnessPrice == 2

\* robotState.transactions keeps the newest fifty
MaxTransactions == 50

RECURSIVE JoinFields(_)
JoinFields(fields) ==
    IF fields = <<>> THEN ""
    ELSE fields[1].type \o " " \o fields[1].name
         \o (IF Len(fields) = 1 THEN "" ELSE "," \o JoinFields(Tail(fields)))

\* the EIP-712 encodeType of a struct, as wallet.signTypedData derives it from the list
EncodeType(primaryType, fields) == primaryType \o "(" \o JoinFields(fields) \o ")"

\* the EIP-712 hashStruct that wallet.signTypedData computes for value c
SignerStructHash(fields, c) ==
    [proofHash |-> c.proofHash, decision |-> c.decision,
     timestamp |-> c.timestamp, nonce |-> c.nonce,
     typeHash |-> EncodeType("Commitment", fields)]

createControllerDomain(verifyingContract) ==
    [name |-> "ArcAgentController", version |-> "1", chainId |-> ArcChainId,
     verifyingContract |-> verifyingContract]

\* wallet.signTypedData(domain, types, value): the wallet's key over the typed-data digest
SignTypedData(wallet, domain, fields, c) ==
    [kind |-> "ecdsa", key |-> wallet,
     digest |-> [domain |-> domain, struct |-> SignerStructHash(fields, c)]]

signControllerCommitment_SimpleTypes(wallet, c, controllerAddress) ==
    SignTypedData(wallet, createControllerDomain(controllerAddress),
                  EIP712_SIMPLE_COMMITMENT_TYPES, c)
signControllerCommitment(wallet, c, controllerAddress) ==
    SignTypedData(wallet, createControllerDomain(controllerAddress),
                  EIP712_CONTROLLER_COMMITMENT_TYPES, c)

\* the same controller deployed on another chain
OtherChainDomain ==
    [name |-> "ArcAgentController", version |-> "1", chainId |-> 1,
     verifyingContract |-> Controller]

\* the signatures a caller can present beside commitment c: the service's signing
\* routine run with either key for this gate, the owner's signature made for another
\* gate instance or for another chain, and bytes that are no signature
Signatures(c) ==
    {signControllerCommitment(k, c, Controller) : k \in Accounts}
    \cup {signControllerCommitment("deployer", c, OtherDomain.verifyingContract)}
    \cup {SignTypedData("deployer", OtherChainDomain, EIP712_CONTROLLER_COMMITMENT_TYPES, c)}
    \cup {MalformedSig}

\* ECDSA.recover(digest, signature); a malformed signature makes recover revert
RecoverReverts(sig) == sig.kind = "malformed"
Recover_IgnoresDomain(digest, sig) ==
    IF sig.digest.struct = digest.struct THEN sig.key ELSE Unknown
Recover(digest, sig) == IF sig.digest = digest THEN sig.key ELSE Unknown

---------------------------------------------------------------------------
(* The checks of executeTransfer *)

NonceUnused_NeverUsed(used, c) == TRUE
NonceUnused(used, c) == c.nonce \notin used

DecisionAuthorized_NonZero(c) == c.decision # 0
DecisionAuthorized(c) == c.decision = AUTHORIZED

\* commitment.timestamp + 3600 is checked uint256 arithmetic: overflow panics
ExpiryOverflows(c) == c.timestamp + FreshnessWindow > MaxUint

TimestampFresh_Strict(t, c) == t < c.timestamp + FreshnessWindow
TimestampFresh(t, c) == t <= c.timestamp + FreshnessWindow

SignatureValid_AnySigner(c, sig, own) ==
    /\ ~RecoverReverts(sig)
    /\ Recover(HashTypedDataV4(ThisDomain, StructHash(c)), sig) # Unknown
SignatureValid(c, sig, own) ==
    /\ ~RecoverReverts(sig)
    /\ Recover(HashTypedDataV4(ThisDomain, StructHash(c)), sig) = own

MarkNonce_Forgotten(used, c) == used
MarkNonce(used, c) == used \cup {c.nonce}

\* usdc.transfer(to, amount) out of the custody balance bal
TokenTransferOk_Unchecked(bal, amount) == TRUE
TokenTransferOk_OffByOne(bal, amount) == bal > amount
TokenTransferOk(bal, amount) == bal >= amount

\* the event lists nonce before timestamp, the struct timestamp before nonce
TransferExecuted_StructOrder(to, amount, c) ==
    [to |-> to, amount |-> amount, proofHash |-> c.proofHash,
     decision |-> c.decision, nonce |-> c.timestamp, timestamp |-> c.nonce]
TransferExecuted(to, amount, c) ==
    [to |-> to, amount |-> amount, proofHash |-> c.proofHash,
     decision |-> c.decision, nonce |-> c.nonce, timestamp |-> c.timestamp]

\* the contract's storage and token balance as one value
Storage == [usedNonces |-> usedNonces, balance |-> balance, events |-> events]

\* a failed require reverts the transaction: the storage it started from is restored
Rollback_KeepsWrites(pre, cur) == cur
Rollback(pre, cur) == pre

NoMove == [to |-> NoAccount, amount |-> 0]

\* the same handler with the signature check moved in front of the other three
ExecuteTransferOutcome_SignatureFirst(pre, t, own, to, amount, c, sig) ==
    IF ~SignatureValid(c, sig, own)
    THEN [result |-> "InvalidSignature", st |-> Rollback(pre, pre), moved |-> NoMove]
    ELSE IF ~NonceUnused(pre.usedNonces, c)
    THEN [result |-> "NonceReplay", st |-> Rollback(pre, pre), moved |-> NoMove]
    ELSE IF ~DecisionAuthorized(c)
    THEN [result |-> "NotAuthorized", st |-> Rollback(pre, pre), moved |-> NoMove]
    ELSE IF ExpiryOverflows(c)
    THEN [result |-> "Panic", st |-> Rollback(pre, pre), moved |-> NoMove]
    ELSE IF ~TimestampFresh(t, c)
    THEN [result |-> "CommitmentExpired", st |-> Rollback(pre, pre), moved |-> NoMove]
    ELSE LET marked == [pre EXCEPT !.usedNonces = MarkNonce(pre.usedNonces, c)]
         IN  IF ~TokenTransferOk(marked.balance, amount)
             THEN [result |-> "TransferFailed", st |-> Rollback(pre, marked),
                   moved |-> NoMove]
             ELSE [result |-> "ok",
                   st |-> [marked EXCEPT
                             !.balance = @ - amount,
                             !.events = Append(@, TransferExecuted(to, amount, c))],
                   moved |-> [to |-> to, amount |-> amount]]

\* executeTransfer(to, amount, commitment, signature) at block time t, from storage pre
ExecuteTransferOutcome(pre, t, own, to, amount, c, sig) ==
    IF ~NonceUnused(pre.usedNonces, c)
    THEN [result |-> "NonceReplay", st |-> Rollback(pre, pre), moved |-> NoMove]
    ELSE IF ~DecisionAuthorized(c)
    THEN [result |-> "NotAuthorized", st |-> Rollback(pre, pre), moved |-> NoMove]
    ELSE IF ExpiryOverflows(c)
    THEN [result |-> "Panic", st |-> Rollback(pre, pre), moved |-> NoMove]
    ELSE IF ~TimestampFresh(t, c)
    THEN [result |-> "CommitmentExpired", st |-> Rollback(pre, pre), moved |-> NoMove]
    ELSE IF ~SignatureValid(c, sig, own)
    THEN [result |-> "InvalidSignature", st |-> Rollback(pre, pre), moved |-> NoMove]
    ELSE LET marked == [pre EXCEPT !.usedNonces = MarkNonce(pre.usedNonces, c)]
         IN  IF ~TokenTransferOk(marked.balance, amount)
             THEN [result |-> "TransferFailed", st |-> Rollback(pre, marked),
                   moved |-> NoMove]
             ELSE [result |-> "ok",
                   st |-> [marked EXCEPT
                             !.balance = @ - amount,
                             !.events = Append(@, TransferExecuted(to, amount, c))],
                   moved |-> [to |-> to, amount |-> amount]]

\* modifier onlyOwner
OnlyOwner_Anyone(caller, own) == TRUE
OnlyOwner(caller, own) == caller = own

Call(op, caller, to, amount, c, sig, result, moved, emitted) ==
    [op |-> op, caller |-> caller, to |-> to, amount |-> amount, c |-> c, sig |-> sig,
     time |-> now, preBalance |-> balance, preNonces |-> usedNonces,
     preEvents |-> Len(events),
     result |-> result, moved |-> moved, emitted |-> emitted]

NoCall ==
    [op |-> "none", caller |-> NoAccount, to |-> NoAccount, amount |-> 0,
     c |-> NoCommitment, sig |-> MalformedSig,
     time |-> InitialTime, preBalance |-> 0, preNonces |-> {}, preEvents |-> 0,
     result |-> "none", moved |-> NoMove, emitted |-> "none"]

---------------------------------------------------------------------------
(* Actions of the Authorization Gate *)

GateInit ==
    /\ owner = "deployer"
    /\ usedNonces = {}
    /\ balance = 0
    /\ events = <<>>
    /\ now = InitialTime
    /\ last = NoCall

executeTransfer ==
    \E to \in Accounts, amount \in Amounts, c \in Commitments :
      \E sig \in Signatures(c) :
        LET out == ExecuteTransferOutcome(Storage, now, owner, to, amount, c, sig)
        IN  /\ usedNonces' = out.st.usedNonces
            /\ balance' = out.st.balance
            /\ events' = out.st.events
            /\ last' = Call("executeTransfer", NoAccount, to, amount, c, sig, out.result,
                            out.moved,
                            IF out.result = "ok" THEN "TransferExecuted" ELSE "none")
            /\ UNCHANGED <<owner, now, x402Vars, serviceVars>>

\* usdc.transferFrom(msg.sender, address(this), amount) succeeds or not according to
\* the sender's token balance and allowance, which the contract does not hold
deposit ==
    \E caller \in Accounts, amount \in Amounts, tokenOk \in BOOLEAN :
        /\ balance + amount <= MaxCustody
        /\ IF tokenOk
           THEN /\ balance' = balance + amount
                /\ last' = Call("deposit", caller, Controller, amount, NoCommitment,
                                MalformedSig, "ok", NoMove, "FundsDeposited")
           ELSE /\ balance' = balance
                /\ last' = Call("deposit", caller, Controller, amount, NoCommitment,
                                MalformedSig, "DepositFailed", NoMove, "none")
        /\ UNCHANGED <<owner, usedNonces, events, now, x402Vars, serviceVars>>

withdraw ==
    \E caller \in Accounts, amount \in Amounts :
        /\ IF ~OnlyOwner(caller, owner)
           THEN /\ balance' = balance
                /\ last' = Call("withdraw", caller, caller, amount, NoCommitment,
                                MalformedSig, "Unauthorized", NoMove, "none")
           ELSE IF ~TokenTransferOk(balance, amount)
           THEN /\ balance' = balance
                /\ last' = Call("withdraw", caller, caller, amount, NoCommitment,
                                MalformedSig, "WithdrawFailed", NoMove, "none")
           ELSE /\ balance' = balance - amount
                /\ last' = Call("withdraw", caller, caller, amount, NoCommitment,
                                MalformedSig, "ok",
                                [to |-> caller, amount |-> amount], "FundsWithdrawn")
        /\ UNCHANGED <<owner, usedNonces, events, now, x402Vars, serviceVars>>

\* a later block; the step is no call to the contract
Tick ==
    /\ now < InitialTime + MaxTicks
    /\ now' = now + 1
    /\ last' = [NoCall EXCEPT !.time = now + 1, !.preBalance = balance,
                              !.preNonces = usedNonces, !.preEvents = Len(events)]
    /\ UNCHANGED <<owner, usedNonces, balance, events, x402Vars, serviceVars>>


---------------------------------------------------------------------------
(* Part II - the Payment Challenge Gate (X402Middleware)                    *)

Null == "null"
Undefined == "undefined"

UsdcAddress == "usdc"
PayTo == "payTo"
Stranger == "stranger"
OtherContract == "otherContract"
Payer == "payer"

\* network identifiers as sequences of pieces, so that startsWith is a prefix test
ConfiguredNetwork == <<"arc-testnet:5042002">>
Networks == {ConfiguredNetwork, <<"arc-testnet:5042002", "1">>, <<"base:8453">>}
\* a payment object without a network field
UndefinedNetwork == <<Undefined>>

StartsWith(s, prefix) ==
    /\ Len(s) >= Len(prefix)
    /\ SubSeq(s, 1, Len(prefix)) = prefix

TxHashes == {"0xaa"}
UnknownHash == "0xbb"
TxAmounts == (RequiredAmount - 1) .. (RequiredAmount + MaxOverpay)

\* calldata, as the ERC-20 interface of the middleware reads it
NoArgs(fn) == [fn |-> fn, to |-> Null, amount |-> 0]
Calldata ==
    {[fn |-> "transfer", to |-> r, amount |-> a] : r \in {PayTo, Stranger}, a \in TxAmounts}
    \cup {[fn |-> "approve", to |-> PayTo, amount |-> RequiredAmount],
          [fn |-> "transferFrom", to |-> PayTo, amount |-> RequiredAmount]}
    \cup {NoArgs("balanceOf"), NoArgs("malformed"), NoArgs("empty")}

\* the transactions a payer can broadcast; value is the native amount sent along
Transactions ==
    {tx \in [to : {UsdcAddress, PayTo, OtherContract, Null}, data : Calldata,
             value : {0} \cup TxAmounts, from : {Payer}, status : {"pending"}] :
        /\ tx.to = Null => tx.data.fn = "empty"
        /\ tx.value # 0 => (tx.data.fn = "empty" /\ tx.to = PayTo)}

NoTx == [to |-> Null, data |-> NoArgs("empty"), value |-> 0, from |-> Null,
         status |-> "absent"]

\* the outcomes execution can give a broadcast transaction: a call of the token with
\* arguments it cannot decode reverts, every other transaction may succeed or fail
Outcomes(tx) ==
    IF tx.to = UsdcAddress /\ tx.data.fn = "malformed"
    THEN {"failed"} ELSE {"failed", "success"}

\* the logs of the receipt: a successful token call emits the token's event
Logs(tx) ==
    IF tx.status = "success" /\ tx.to = UsdcAddress
       /\ tx.data.fn \in {"transfer", "transferFrom"}
    THEN <<[address |-> UsdcAddress,
            topics |-> <<"Transfer", tx.from, tx.data.to>>, data |-> tx.data.amount]>>
    ELSE IF tx.status = "success" /\ tx.to = UsdcAddress /\ tx.data.fn = "approve"
    THEN <<[address |-> UsdcAddress,
            topics |-> <<"Approval", tx.from, tx.data.to>>, data |-> tx.data.amount]>>
    ELSE <<>>

\* the USDC that transaction tx moved to account r: an ERC-20 transfer or transferFrom
\* executed by the token, or native value sent to r (Arc's native token is USDC)
PaidTo(tx, r) ==
    IF tx.status # "success" THEN 0
    ELSE (IF tx.to = UsdcAddress /\ tx.data.fn \in {"transfer", "transferFrom"}
             /\ tx.data.to = r
          THEN tx.data.amount ELSE 0)
         + (IF tx.to = r THEN tx.value ELSE 0)

GetTransactionReceipt_Cached(ch, h) ==
    LET seen == IF exchange.header = "payment" /\ exchange.payment.payload.txHash = h
                THEN exchange.ledgerTx
                ELSE IF h \in DOMAIN ch THEN ch[h] ELSE NoTx
    IN  IF seen.status \in {"failed", "success"}
        THEN [found |-> TRUE, status |-> IF seen.status = "success" THEN 1 ELSE 0,
              logs |-> Logs(seen)]
        ELSE [found |-> FALSE, status |-> 0, logs |-> <<>>]
\* provider.getTransactionReceipt(txHash): null until the transaction is mined
GetTransactionReceipt(ch, h) ==
    IF h \in DOMAIN ch /\ ch[h].status \in {"failed", "success"}
    THEN [found |-> TRUE, status |-> IF ch[h].status = "success" THEN 1 ELSE 0,
          logs |-> Logs(ch[h])]
    ELSE [found |-> FALSE, status |-> 0, logs |-> <<>>]

\* provider.getTransaction(txHash)
GetTransaction(ch, h) ==
    IF h \in DOMAIN ch /\ ch[h].status # "absent" THEN ch[h] ELSE NoTx

\* a payment object without a payload field
UndefinedPayload == [defined |-> FALSE, txHash |-> Null, signature |-> Null]

Rejected(reason) ==
    [valid |-> FALSE, error |-> reason, txHash |-> Null, from |-> Null, amount |-> 0]

Verified(h, from, amount) ==
    [valid |-> TRUE, error |-> "none", txHash |-> h, from |-> from, amount |-> amount]

\* the catch block of verifyOnChain: read recipient and amount off the first log of
\* the token
VerifyFromLogs(logs) ==
    LET tokenLogs == {i \in DOMAIN logs : logs[i].address = UsdcAddress}
    IN  IF tokenLogs = {}
        THEN [thrown |-> "Could not verify USDC transfer", defined |-> FALSE, value |-> 0]
        ELSE LET transferLog == logs[CHOOSE i \in tokenLogs : \A j \in tokenLogs : i <= j]
             IN  IF Len(transferLog.topics) < 3
                 THEN [thrown |-> "Could not verify USDC transfer", defined |-> FALSE, value |-> 0]
                 ELSE IF transferLog.topics[3] # PayTo
                 THEN [thrown |-> "Payment sent to wrong address", defined |-> FALSE, value |-> 0]
                 ELSE [thrown |-> "none", defined |-> TRUE, value |-> transferLog.data]

\* the destination test of verifyOnChain
SentToTokenOrService_TokenOnly(to) == to = UsdcAddress
SentToTokenOrService(to) == to = UsdcAddress \/ to = PayTo

\* the try block of verifyOnChain: decode tx.data as a call of the ERC-20 interface;
\* whatever it throws, the wrong-recipient error included, lands in the catch block
DecodeValue(tx, logs) ==
    IF tx.data.fn = "malformed"
    THEN VerifyFromLogs(logs)
    ELSE IF tx.data.fn = "transfer"
    THEN IF tx.data.to # PayTo
         THEN VerifyFromLogs(logs)
         ELSE [thrown |-> "none", defined |-> TRUE, value |-> tx.data.amount]
    \* a selector outside erc20Abi parses to null, a call other than transfer is skipped
    ELSE [thrown |-> "none", defined |-> FALSE, value |-> 0]

AmountSufficient_Any(value, required) == TRUE
\* the amount test, if (value < required) throw
AmountSufficient(value, required) == ~(value < required)

ReceiptSucceeded_Mined(receipt) == receipt.found
\* the receipt test, if (!receipt || receipt.status !== 1) throw
ReceiptSucceeded(receipt) == receipt.found /\ receipt.status = 1

\* verifyOnChain(payload, requiredAmount)
VerifyOnChain(ch, payload) ==
    IF ~payload.defined
    THEN Rejected("TypeError")
    ELSE IF payload.txHash # Null
    THEN LET receipt == GetTransactionReceipt(ch, payload.txHash)
             tx == GetTransaction(ch, payload.txHash)
         IN  IF ~ReceiptSucceeded(receipt)
             THEN Rejected("Transaction not found or failed")
             ELSE IF tx = NoTx
             THEN Rejected("Transaction not found")
             ELSE IF tx.to = Null
             THEN Rejected("TypeError")
             ELSE IF ~SentToTokenOrService(tx.to)
             THEN Rejected("Transaction not sent to USDC contract or service address")
             ELSE LET decoded == DecodeValue(tx, receipt.logs)
                  IN  IF decoded.thrown # "none"
                      THEN Rejected(decoded.thrown)
                      ELSE IF ~decoded.defined
                      \* undefined < required is false; formatUnits(undefined, 6) throws
                      THEN Rejected("invalid BigNumberish value")
                      ELSE IF ~AmountSufficient(decoded.value, RequiredAmount)
                      THEN Rejected("Insufficient payment")
                      ELSE Verified(payload.txHash, tx.from, decoded.value)
    ELSE IF payload.signature # Null
    THEN Rejected("Signature-based payments not yet implemented")
    ELSE Rejected("Payment must include txHash or signature")

\* verifyViaFacilitator(payment, requiredAmount): the answer is the remote service's
VerifyViaFacilitator(payment, answerValid) ==
    IF answerValid
    THEN Verified(payment.payload.txHash, Null, 0)
    ELSE Rejected("Payment verification failed")

\* verifyPayment(payment, requiredAmount)
VerifyPayment(url, ch, payment, answerValid) ==
    IF payment.x402Version # 1
    THEN Rejected("Unsupported x402 version")
    ELSE IF payment.scheme # "exact"
    THEN Rejected("Only \"exact\" scheme supported currently")
    ELSE IF payment.network = UndefinedNetwork
    THEN Rejected("TypeError")
    ELSE IF ~StartsWith(payment.network, ConfiguredNetwork)
    THEN Rejected("Network mismatch")
    ELSE IF url # Null
    THEN VerifyViaFacilitator(payment, answerValid)
    ELSE VerifyOnChain(ch, payment.payload)

Payloads ==
    {[defined |-> TRUE, txHash |-> h, signature |-> Null] :
        h \in TxHashes \cup {UnknownHash}}
    \cup {[defined |-> TRUE, txHash |-> Null, signature |-> "0xsig"],
          [defined |-> TRUE, txHash |-> Null, signature |-> Null]}
    \cup {UndefinedPayload}

\* what the X-PAYMENT header decodes to
Payments ==
    [x402Version : {1, 2}, scheme : {"exact", "upto"},
     network : Networks \cup {UndefinedNetwork}, payload : Payloads]

NoPayment ==
    [x402Version |-> 0, scheme |-> Null, network |-> UndefinedNetwork,
     payload |-> UndefinedPayload]

CreatePaymentRequired_NoRequestId(requestId, error) ==
    [x402Version |-> 1,
     accepts |-> <<[scheme |-> "exact", network |-> ConfiguredNetwork,
                    maxAmountRequired |-> RequiredAmount, resource |-> "/paid",
                    payTo |-> PayTo, asset |-> UsdcAddress,
                    metadata |-> [requestId |-> Null]]>>,
     error |-> error]
\* createPaymentRequired(req, amount, resource); error is the text of the challenge, in
\* its pieces: the catch block of the middleware sets it to
\* `Payment verification failed: ${error.message}`
CreatePaymentRequired(requestId, error) ==
    [x402Version |-> 1,
     accepts |-> <<[scheme |-> "exact", network |-> ConfiguredNetwork,
                    maxAmountRequired |-> RequiredAmount, resource |-> "/paid",
                    payTo |-> PayTo, asset |-> UsdcAddress,
                    metadata |-> [requestId |-> requestId]]>>,
     error |-> error]

NoChallenge == CreatePaymentRequired(Null, <<"none">>)

RequestIds == {"req1"}

Exchange(header, payment, status, nextCalled, verification, challenge) ==
    [header |-> header, payment |-> payment, status |-> status,
     nextCalled |-> nextCalled, verification |-> verification, challenge |-> challenge,
     ledgerTx |-> IF payment.payload.txHash \in DOMAIN chain
                  THEN chain[payment.payload.txHash] ELSE NoTx]

X402Init ==
    /\ facilitatorUrl \in {Null, "https://facilitator"}
    /\ chain = [h \in TxHashes |-> NoTx]
    /\ exchange = Exchange("none", NoPayment, 0, FALSE, Rejected("none"), NoChallenge)
    /\ unlocked = [h \in TxHashes |-> 0]

\* the middleware takes no part in the run
X402Idle ==
    facilitatorUrl = Null /\ chain = Null /\ exchange = Null /\ unlocked = Null

\* a payer broadcasts a transaction
BroadcastTx ==
    \E h \in TxHashes, tx \in Transactions :
        /\ chain[h].status = "absent"
        /\ chain' = [chain EXCEPT ![h] = tx]
        /\ UNCHANGED <<facilitatorUrl, exchange, unlocked, gateVars, serviceVars>>

\* the ledger executes a broadcast transaction
MineTx ==
    \E h \in TxHashes :
        /\ chain[h].status = "pending"
        /\ \E s \in Outcomes(chain[h]) : chain' = [chain EXCEPT ![h].status = s]
        /\ UNCHANGED <<facilitatorUrl, exchange, unlocked, gateVars, serviceVars>>

\* the middleware answers a request that carries no X-PAYMENT header
middlewareNoHeader ==
    \E rid \in RequestIds :
        /\ exchange' = Exchange("absent", NoPayment, 402, FALSE, Rejected("none"),
                                CreatePaymentRequired(rid,
                                    <<"Payment required to access this resource">>))
        /\ UNCHANGED <<facilitatorUrl, chain, unlocked, gateVars, serviceVars>>

\* the middleware answers a request whose X-PAYMENT header does not parse
middlewareBadHeader ==
    \E rid \in RequestIds :
        /\ exchange' = Exchange("unparseable", NoPayment, 402, FALSE,
                                Rejected("Invalid X-PAYMENT header format"),
                                CreatePaymentRequired(rid,
                                    <<"Payment verification failed",
                                      "Invalid X-PAYMENT header format">>))
        /\ UNCHANGED <<facilitatorUrl, chain, unlocked, gateVars, serviceVars>>

\* the middleware answers a request whose X-PAYMENT header parses to payment
middlewareWithPayment ==
    \E payment \in Payments, answerValid \in BOOLEAN, rid \in RequestIds :
        LET verification == VerifyPayment(facilitatorUrl, chain, payment, answerValid)
        IN  \* the facilitator's answer is an input only when one is configured
            /\ facilitatorUrl = Null => answerValid
            /\ IF verification.valid
               THEN /\ exchange' = Exchange("payment", payment, 200, TRUE, verification,
                                            NoChallenge)
                    \* next(): the route handler runs once more on this proof
                    /\ IF payment.payload.txHash \in TxHashes
                       THEN /\ unlocked[payment.payload.txHash] < MaxUnlocks
                            /\ unlocked' = [unlocked EXCEPT ![payment.payload.txHash] = @ + 1]
                       ELSE unlocked' = unlocked
               ELSE /\ exchange' = Exchange("payment", payment, 402, FALSE, verification,
                                            CreatePaymentRequired(rid,
                                                <<"Payment verification failed",
                                                  verification.error>>))
                    /\ unlocked' = unlocked
            /\ UNCHANGED <<facilitatorUrl, chain, gateVars, serviceVars>>

---------------------------------------------------------------------------
(* Part III - the compliance agent (unnamed/part_000): POST /settle and     *)
(* GET /settle-stream, both served by handleSettle.  Every await of the     *)
(* handler is a step of its own, so that requests interleave as they do on   *)
(* the event loop.                                                          *)

SettleIds == {"s1", "s2"}
Merchant == "merchant"
ProofDigest == "h1"

\* what the module reads from process.env when it loads
AgentEnvs ==
    [PRIVATE_KEY : {Null, "deployer"},
     ARC_AGENT_CONTROLLER_ADDRESS : {Null, Controller},
     CIRCLE_WALLET_ID : {Null, "wallet-1"},
     proverBuilt : BOOLEAN]

\* const USE_CONTROLLER = !!CONTROLLER_ADDRESS
USE_CONTROLLER(env) == env.ARC_AGENT_CONTROLLER_ADDRESS # Null

\* createWallet(process.env.PRIVATE_KEY): new ethers.Wallet throws on a missing key
CreateWalletThrows(env) == env.PRIVATE_KEY = Null

ScreeningResults == {"APPROVED", "DENIED"}

\* what zkml.generateProof resolves to, or that it rejects
ProverOutcomes == {"AUTHORIZED", "DENIED", "rejects"}

\* the combined screening.result of handleSettle
CombinedScreening(senderResult, recipientResult) ==
    IF senderResult = "APPROVED" /\ recipientResult = "APPROVED"
    THEN "APPROVED" ELSE "DENIED"

\* zkml.createMockProof(decision, confidence).decision
createMockProof(decision) == IF decision = 1 THEN "AUTHORIZED" ELSE "DENIED"

\* zkml.createMockProof(screening.result === 'APPROVED' ? 1 : 0, ...).decision
MockProofDecision(screening) == createMockProof(IF screening = "APPROVED" THEN 1 ELSE 0)

Approved_Either(proofDecision, screening) ==
    proofDecision = "AUTHORIZED" \/ screening = "APPROVED"
\* const approved = proof.decision === 'AUTHORIZED' && screening.result === 'APPROVED'
Approved(proofDecision, screening) ==
    proofDecision = "AUTHORIZED" /\ screening = "APPROVED"

\* the commitment of step 5, built at host time ms
BuildCommitment(approved, ms) ==
    [proofHash |-> ProofDigest, decision |-> IF approved THEN 1 ELSE 0,
     timestamp |-> ms \div 1000, nonce |-> ms]

createSimpleCommitmentDomain ==
    [name |-> "ArcCommitment", version |-> "1", chainId |-> ArcChainId,
     verifyingContract |-> "commitmentRegistry"]

signCommitment(wallet, c) ==
    SignTypedData(wallet, createSimpleCommitmentDomain, EIP712_SIMPLE_COMMITMENT_TYPES, c)

\* step 5: the signature the handler takes, by transfer mode
SignStep(env, c) ==
    IF USE_CONTROLLER(env)
    THEN signControllerCommitment(env.PRIVATE_KEY, c, env.ARC_AGENT_CONTROLLER_ADDRESS)
    ELSE signCommitment(env.PRIVATE_KEY, c)

\* step 6: the branch an approved settlement takes
TransferStep(env) ==
    IF USE_CONTROLLER(env) THEN "controllerTransfer"
    ELSE IF env.CIRCLE_WALLET_ID # Null THEN "circleTransfer"
    ELSE "eoaTransfer"

NoSettlement ==
    [amount |-> 0, decision |-> "none", pc |-> "idle", sender |-> "none",
     recipient |-> "none", approved |-> FALSE, commitment |-> NoCommitment,
     signature |-> MalformedSig]

Attempt(r, via, ok) == [req |-> r, via |-> via, ok |-> ok]

AgentInit ==
    /\ agentEnv \in AgentEnvs
    /\ agentState = "loading"
    /\ clockMs = 1000
    /\ settle = [r \in SettleIds |-> NoSettlement]
    /\ issued = {}
    /\ transfers = {}

\* the agent takes no part in the run: its variables hold no value
AgentIdle ==
    /\ agentEnv = Null /\ agentState = Null /\ clockMs = Null
    /\ settle = Null /\ issued = Null /\ transfers = Null

\* the module loads: lines 57 and 72-76 run before app.listen
startAgent ==
    /\ agentState = "loading"
    /\ agentState' = IF CreateWalletThrows(agentEnv) THEN "crashed" ELSE "listening"
    /\ UNCHANGED <<agentEnv, clockMs, settle, issued, transfers, gateVars, x402Vars, decideVars, uiVars, witnessVars, peerVars>>

\* a millisecond passes on the host
clockTick ==
    /\ clockMs < 1000 + MaxClockTicks
    /\ clockMs' = clockMs + 1
    /\ UNCHANGED <<agentEnv, agentState, settle, issued, transfers, gateVars, x402Vars, decideVars, uiVars, witnessVars, peerVars>>

\* a request with a valid recipient and amount enters handleSettle
settleRequest ==
    \E r \in SettleIds, amount \in Amounts :
        /\ agentState = "listening"
        /\ settle[r].pc = "idle"
        /\ settle' = [settle EXCEPT ![r].pc = "screenSender", ![r].amount = amount]
        /\ UNCHANGED <<agentEnv, agentState, clockMs, issued, transfers, gateVars, x402Vars, decideVars, uiVars, witnessVars, peerVars>>

\* step 1: await screenAddress(wallet.address)
screenSender ==
    \E r \in SettleIds, res \in ScreeningResults :
        /\ settle[r].pc = "screenSender"
        /\ settle' = [settle EXCEPT ![r].pc = "screenRecipient", ![r].sender = res]
        /\ UNCHANGED <<agentEnv, agentState, clockMs, issued, transfers, gateVars, x402Vars, decideVars, uiVars, witnessVars, peerVars>>

\* step 2: await screenAddress(to)
screenRecipient ==
    \E r \in SettleIds, res \in ScreeningResults :
        /\ settle[r].pc = "screenRecipient"
        /\ settle' = [settle EXCEPT ![r].pc = "prove", ![r].recipient = res]
        /\ UNCHANGED <<agentEnv, agentState, clockMs, issued, transfers, gateVars, x402Vars, decideVars, uiVars, witnessVars, peerVars>>

\* steps 3 to 5, up to the await of the signing call: the proof, the approval and the
\* commitment with its nonce read off the clock
generateProof ==
    \E r \in SettleIds, out \in ProverOutcomes :
        LET screening == CombinedScreening(settle[r].sender, settle[r].recipient)
            decision == IF agentEnv.proverBuilt THEN out ELSE MockProofDecision(screening)
            approved == Approved(decision, screening)
        IN  /\ settle[r].pc = "prove"
            /\ ~agentEnv.proverBuilt => out = "AUTHORIZED"
            /\ IF decision = "rejects"
               \* the catch block of handleSettle answers 500
               THEN settle' = [settle EXCEPT ![r].pc = "failed"]
               ELSE settle' = [settle EXCEPT ![r].pc = "sign",
                                             ![r].decision = decision,
                                             ![r].approved = approved,
                                             ![r].commitment =
                                                 BuildCommitment(approved, clockMs)]
            /\ UNCHANGED <<agentEnv, agentState, clockMs, issued, transfers, gateVars,
                           x402Vars, decideVars, uiVars, witnessVars, peerVars>>

\* step 5: the signing call resolves
signStep ==
    \E r \in SettleIds :
        LET c == settle[r].commitment
        IN  /\ settle[r].pc = "sign"
            /\ settle' = [settle EXCEPT
                            ![r].pc = IF settle[r].approved
                                      THEN TransferStep(agentEnv) ELSE "done",
                            ![r].signature = SignStep(agentEnv, c)]
            /\ issued' = issued \cup {[nonce |-> c.nonce, key |-> agentEnv.PRIVATE_KEY,
                                       req |-> r]}
            /\ UNCHANGED <<agentEnv, agentState, clockMs, transfers, gateVars, x402Vars, decideVars, uiVars, witnessVars, peerVars>>

\* step 6, controller mode: controller.executeTransfer(...) and tx.wait()
controllerTransfer ==
    \E r \in SettleIds :
        LET out == ExecuteTransferOutcome(Storage, now, owner, Merchant, settle[r].amount,
                                          settle[r].commitment, settle[r].signature)
        IN  /\ settle[r].pc = "controllerTransfer"
            /\ usedNonces' = out.st.usedNonces
            /\ balance' = out.st.balance
            /\ events' = out.st.events
            /\ last' = Call("executeTransfer", NoAccount, Merchant, settle[r].amount,
                            settle[r].commitment, settle[r].signature, out.result,
                            out.moved,
                            IF out.result = "ok" THEN "TransferExecuted" ELSE "none")
            /\ transfers' = transfers \cup {Attempt(r, "controller", out.result = "ok")}
            \* the catch block: a controller call that throws is followed by a direct one
            /\ settle' = [settle EXCEPT ![r].pc = IF out.result = "ok"
                                                  THEN "done" ELSE "fallbackTransfer"]
            /\ UNCHANGED <<owner, now, agentEnv, agentState, clockMs, issued, x402Vars, decideVars, uiVars, witnessVars, peerVars>>

\* step 6, controller mode, after a failed controller call: transferUsdc(wallet, to, amount)
fallbackTransfer ==
    \E r \in SettleIds, ok \in BOOLEAN :
        /\ settle[r].pc = "fallbackTransfer"
        /\ transfers' = transfers \cup {Attempt(r, "eoa", ok)}
        /\ settle' = [settle EXCEPT ![r].pc = "done"]
        /\ UNCHANGED <<agentEnv, agentState, clockMs, issued, gateVars, x402Vars, decideVars, uiVars, witnessVars, peerVars>>

\* step 6, Circle wallet mode: circleWalletTransfer(to, amount)
circleTransfer ==
    \E r \in SettleIds, ok \in BOOLEAN :
        /\ settle[r].pc = "circleTransfer"
        /\ transfers' = transfers \cup {Attempt(r, "circle", ok)}
        /\ settle' = [settle EXCEPT ![r].pc = "done"]
        /\ UNCHANGED <<agentEnv, agentState, clockMs, issued, gateVars, x402Vars, decideVars, uiVars, witnessVars, peerVars>>

\* step 6, EOA mode: transferUsdc(wallet, to, amount)
eoaTransfer ==
    \E r \in SettleIds, ok \in BOOLEAN :
        /\ settle[r].pc = "eoaTransfer"
        /\ transfers' = transfers \cup {Attempt(r, "eoa", ok)}
        /\ settle' = [settle EXCEPT ![r].pc = "done"]
        /\ UNCHANGED <<agentEnv, agentState, clockMs, issued, gateVars, x402Vars, decideVars, uiVars, witnessVars, peerVars>>

---------------------------------------------------------------------------
(* Part IV - the services that turn an oracle's answer into a decision:     *)
(* POST /compliance/check and POST /transfer/execute of the gateway agent   *)
(* (demos/gateway-compliance/server.cjs), POST /wallet/authorize            *)
(* (demos/programmable-wallets/server.cjs) and OpenMindClient.shouldPurchase *)
(* (demos/trustless-robot-commerce/server.cjs).                             *)

\* what the zkML prover gives a caller: the binary is not built (zkml.isAvailable()
\* is false), generateProof rejects, or it resolves to JSON that carries a decision,
\* lacks the decision, or lacks the proof hash
ZkmlOutcomes ==
    {"binaryMissing", "rejects", "AUTHORIZED", "DENIED", "noDecision", "noProofHash"}

\* what the LLM gives shouldPurchase: no API key, an API error, or a completion whose
\* text holds JSON with decision approve, deny or neither, or holds no JSON at all
LlmOutcomes == {"noApiKey", "apiError", "approve", "deny", "otherJson", "noJson"}

\* the outcomes in which the oracle gave no answer of the agreed shape
OracleFailed ==
    {"binaryMissing", "rejects", "noDecision", "noProofHash",
     "noApiKey", "apiError", "otherJson", "noJson"}

GatewayProofHashes == {"p1", "p2"}
ForgedProofHash == "0xforged"

Answer(service, oracle, status, approved, decision, proofHash) ==
    [decision |-> decision, proofHash |-> proofHash, status |-> status,
     approved |-> approved, service |-> service, oracle |-> oracle]

NoAnswer == Answer("none", "none", 0, FALSE, 0, Null)

\* the decision handed to createMockProof when the prover binary is absent
MockDecisionWhenUnavailable == 1

\* the try block shared by /compliance/check and /wallet/authorize: proof, approval,
\* commitment and answer
ZkmlAnswer(service, outcome, proofHash) ==
    IF outcome \in {"rejects", "noProofHash"}
    \* generateProof rejects, or proof.proof_hash.padStart throws: the catch answers 500
    THEN Answer(service, outcome, 500, FALSE, 0, Null)
    ELSE LET decision == IF outcome = "binaryMissing"
                         THEN createMockProof(MockDecisionWhenUnavailable)
                         ELSE outcome
             approved == decision = "AUTHORIZED"
         IN  Answer(service, outcome, 200, approved, IF approved THEN 1 ELSE 0, proofHash)

\* mockLLMResponse(prompt, context).response: approve when the price is within budget
MockLlmText(affordable) == IF affordable THEN "approve" ELSE "deny"

\* the return at the end of shouldPurchase, taken when no JSON could be parsed
UnparseableDefault == TRUE

\* OpenMindClient.shouldPurchase(collisionData, servicePrice, budget).decision
ShouldPurchase(outcome, affordable) ==
    LET text == IF outcome \in {"noApiKey", "apiError"}
                THEN MockLlmText(affordable) ELSE outcome
    IN  IF text = "noJson" THEN UnparseableDefault ELSE text = "approve"

DecideInit ==
    /\ decided = NoAnswer
    /\ complianceChecks = {}
    /\ gatewayTransfers = {}

\* the decision services take no part in the run
DecideIdle == decided = Null /\ complianceChecks = Null /\ gatewayTransfers = Null

\* POST /compliance/check with all required fields
complianceCheck ==
    \E outcome \in ZkmlOutcomes, h \in GatewayProofHashes :
        LET answer == ZkmlAnswer("gateway", outcome, h)
        IN  /\ decided' = answer
            /\ complianceChecks' =
                 IF answer.status = 200
                 THEN complianceChecks \cup {[proofHash |-> h, approved |-> answer.approved]}
                 ELSE complianceChecks
            /\ UNCHANGED <<gatewayTransfers, gateVars, x402Vars, settleVars, uiVars, witnessVars, peerVars>>

\* POST /transfer/execute
transferExecute ==
    \E h \in GatewayProofHashes \cup {ForgedProofHash, Null} :
        /\ gatewayTransfers' = IF h = Null THEN gatewayTransfers
                               ELSE gatewayTransfers \cup {h}
        /\ decided' = Answer("gateway-transfer", "none", IF h = Null THEN 400 ELSE 200,
                             h # Null, 0, h)
        /\ UNCHANGED <<complianceChecks, gateVars, x402Vars, settleVars, uiVars, witnessVars, peerVars>>

\* POST /wallet/authorize with an operation
walletAuthorize ==
    \E outcome \in ZkmlOutcomes, h \in GatewayProofHashes :
        /\ decided' = ZkmlAnswer("wallets", outcome, h)
        /\ UNCHANGED <<complianceChecks, gatewayTransfers, gateVars, x402Vars, settleVars,
                       uiVars, witnessVars, peerVars>>

\* the delivery robot asks whether to buy the footage
shouldPurchase ==
    \E outcome \in LlmOutcomes, affordable \in BOOLEAN :
        LET approved == ShouldPurchase(outcome, affordable)
        IN  /\ decided' = Answer("robot", outcome, 200, approved,
                                 IF approved THEN 1 ELSE 0, Null)
            /\ UNCHANGED <<complianceChecks, gatewayTransfers, gateVars, x402Vars,
                           settleVars, uiVars, witnessVars, peerVars>>

---------------------------------------------------------------------------
(* Part V - the UI server of the settlement agent                           *)
(* (demos/trustless-crosschain-settlement-agent/ARCHITECTURE.md, the server *)
(* listing): module load, POST /api/approve and the routes that sign.       *)

UiEnvs ==
    [PRIVATE_KEY : {Null, "deployer"}, proverBuilt : BOOLEAN,
     ATTESTOR_PRIVATE_KEY : {Null, "attestor"}, USE_JOLT_ATTEST : BOOLEAN,
     ARC_JOLT_VERIFIER_ADDRESS : {Null, "verifier"},
     COMMITMENT_REGISTRY_ADDRESS : {Null, "registry"}]

X402ClientThrows_Never(env) == FALSE
\* new X402Client({privateKey: process.env.PRIVATE_KEY, ...}) at module load: its
\* constructor builds new ethers.Wallet(privateKey, provider), which throws on a
\* missing key
X402ClientThrows(env) == env.PRIVATE_KEY = Null

\* how x402Client.request('http://localhost:9300/prove') can end: the service is not
\* reachable, the USDC payment transaction fails, its confirmation fails, the paid
\* retry is answered with an error body, the first answer is a proof that no payment
\* was asked for, or the proof is returned with its payment
PaidOutcomes ==
    {"unreachable", "paymentFailed", "notConfirmed", "serviceError", "unpaidProof",
     "paidProof"}

\* X402Client.request: throws, or returns the parsed body; the body's parts that
\* /api/approve reads are proof, service and payment
X402ClientRequest(outcome) ==
    [threw |-> outcome \in {"unreachable", "paymentFailed", "notConfirmed"},
     proof |-> outcome \in {"unpaidProof", "paidProof"},
     service |-> outcome \in {"unpaidProof", "paidProof"},
     payment |-> outcome = "paidProof"]

\* POST /api/zkml/prove as fetchJson sees it: always a JSON body, with a proofHashHex
\* only when the prover ran and exited with 0
LocalProve(env, proverExitsZero) ==
    IF ~env.proverBuilt THEN "joltMissing"
    ELSE IF proverExitsZero THEN "localProof" ELSE "proveError"

UiResponse(route, status, error, jolt, x402Payment, paid) ==
    [status |-> status, payment |-> x402Payment, route |-> route, error |-> error,
     jolt |-> jolt, paid |-> paid]

NoUiResponse == UiResponse("none", 0, Null, Null, Null, "none")

CatchPaidFailure_Rethrow(local) == [jolt |-> local, error |-> "x402_failed"]
\* the catch of the x402 try block: the local proof replaces the paid one
CatchPaidFailure(local) == [jolt |-> local, error |-> Null]

\* the body of POST /api/approve from inferONNX to res.json
Approve(env, useX402, paid, local) ==
    LET wantsProof == env.USE_JOLT_ATTEST \/ env.COMMITMENT_REGISTRY_ADDRESS # Null
        r == X402ClientRequest(paid)
        \* the try block stops at the first statement that throws
        joltAssigned == ~r.threw /\ r.proof
        paymentAssigned == joltAssigned /\ r.service /\ r.payment
        caught == CatchPaidFailure(local)
    IN  IF ~wantsProof
        THEN UiResponse("/api/approve", 200, Null, Null, Null, "none")
        ELSE IF ~useX402
        THEN UiResponse("/api/approve", 200, Null, local, Null, "none")
        ELSE IF paymentAssigned
        THEN UiResponse("/api/approve", 200, Null, "paidProof", "tx", paid)
        ELSE IF caught.error # Null
        THEN UiResponse("/api/approve", 500, caught.error, Null, Null, paid)
        ELSE UiResponse("/api/approve", 200, Null, caught.jolt, Null, paid)

\* the key check of /api/jolt/attest and /api/commit/store
AttestorKey(env) ==
    IF env.ATTESTOR_PRIVATE_KEY # Null THEN env.ATTESTOR_PRIVATE_KEY
    ELSE env.PRIVATE_KEY

UiInit ==
    /\ uiEnv \in UiEnvs
    /\ uiState = "loading"
    /\ uiAnswer = NoUiResponse

\* the UI server takes no part in the run
UiIdle == uiEnv = Null /\ uiState = Null /\ uiAnswer = Null

\* the module loads, up to app.listen
startUi ==
    /\ uiState = "loading"
    /\ uiState' = IF X402ClientThrows(uiEnv) THEN "crashed" ELSE "listening"
    /\ UNCHANGED <<uiEnv, uiAnswer, gateVars, x402Vars, settleVars, decideVars, witnessVars, peerVars>>

\* POST /api/approve
apiApprove ==
    \E useX402 \in BOOLEAN, paid \in PaidOutcomes, proverExitsZero \in BOOLEAN :
        /\ uiState = "listening"
        /\ uiAnswer' = Approve(uiEnv, useX402, paid, LocalProve(uiEnv, proverExitsZero))
        /\ UNCHANGED <<uiEnv, uiState, gateVars, x402Vars, settleVars, decideVars, witnessVars, peerVars>>

\* POST /api/jolt/attest
apiJoltAttest ==
    \E hashValid \in BOOLEAN :
        /\ uiState = "listening"
        /\ uiAnswer' =
             IF ~hashValid
             THEN UiResponse("/api/jolt/attest", 400, "invalid_proofHashHex", Null, Null, "none")
             ELSE IF AttestorKey(uiEnv) = Null
             THEN UiResponse("/api/jolt/attest", 400, "missing_attestor_key", Null, Null, "none")
             ELSE UiResponse("/api/jolt/attest", 200, Null, Null, Null, "none")
        /\ UNCHANGED <<uiEnv, uiState, gateVars, x402Vars, settleVars, decideVars, witnessVars, peerVars>>

\* POST /api/commit/store, up to the signing wallet
apiCommitStore ==
    \E stored \in BOOLEAN :
        /\ uiState = "listening"
        /\ uiAnswer' =
             IF uiEnv.COMMITMENT_REGISTRY_ADDRESS = Null
             THEN UiResponse("/api/commit/store", 400, "missing_registry", Null, Null, "none")
             ELSE IF AttestorKey(uiEnv) = Null
             THEN UiResponse("/api/commit/store", 400, "missing_private_key", Null, Null, "none")
             ELSE IF stored
             THEN UiResponse("/api/commit/store", 200, Null, Null, Null, "none")
             ELSE UiResponse("/api/commit/store", 500, "store_failed", Null, Null, "none")
        /\ UNCHANGED <<uiEnv, uiState, gateVars, x402Vars, settleVars, decideVars, witnessVars, peerVars>>

\* POST /api/send-usdc, up to the signing wallet
apiSendUsdc ==
    \E toValid \in BOOLEAN, sent \in BOOLEAN :
        /\ uiState = "listening"
        /\ uiAnswer' =
             IF ~toValid
             THEN UiResponse("/api/send-usdc", 400, "valid_to_required", Null, Null, "none")
             ELSE IF uiEnv.COMMITMENT_REGISTRY_ADDRESS = Null
             THEN UiResponse("/api/send-usdc", 400, "missing_env", Null, Null, "none")
             ELSE IF uiEnv.PRIVATE_KEY = Null
             THEN UiResponse("/api/send-usdc", 400, "PRIVATE_KEY_required", Null, Null, "none")
             ELSE IF sent
             THEN UiResponse("/api/send-usdc", 200, Null, Null, Null, "none")
             ELSE UiResponse("/api/send-usdc", 500, "send_failed", Null, Null, "none")
        /\ UNCHANGED <<uiEnv, uiState, gateVars, x402Vars, settleVars, decideVars, witnessVars, peerVars>>

---------------------------------------------------------------------------
(* Part VI - WitnessBot of the robot commerce demo                          *)
(* (demos/trustless-robot-commerce/server.cjs): verifyPaymentProof and      *)
(* POST /robots/witness/footage, beside the Base Sepolia ledger.            *)

\* transaction hashes of the right format, and a proof that is no hash
WitnessProofs == {"0xaa", "0xbb"}
MalformedProof == "not-a-hash"

\* what a transaction on Base Sepolia does: pay WitnessBot the price in USDC, pay it
\* less, or something else
BaseTxKinds == {"payment", "underpayment", "other"}

NoBaseTx == [status |-> "absent", kind |-> "none"]

WitnessEnvs == [USE_REAL_GATEWAY : BOOLEAN, hasRealWallet : BOOLEAN]

NoFootage ==
    [status |-> 0, proof |-> Null, source |-> "none", tx |-> NoBaseTx]

LookupBaseTx(ch, proof) == IF proof \in DOMAIN ch THEN ch[proof] ELSE NoBaseTx

\* what step 6 of the demo says a verified payment is: a successful transaction that
\* pays WitnessBot the price in USDC
ConfirmedPaymentToWitness(tx) == tx.status = "success" /\ tx.kind = "payment"

\* the receipt test of verifyPaymentProof, if (!receipt || receipt.status !== 1)
ReceiptConfirmed(tx) == tx.status = "success"

\* verifyPaymentProof(paymentProof, WITNESSBOT.price, WITNESSBOT.address): the result,
\* and whether the proof is put into paymentReceipts.  Every receipt is stored with the
\* expected amount and recipient, so the test of a cached receipt always passes.
VerifyPaymentProof(env, receipts, ch, proof, rpcFails) ==
    LET tx == LookupBaseTx(ch, proof)
        simulated == [verified |-> TRUE, source |-> "simulated", cache |-> TRUE]
    IN  IF proof = Null
        THEN [verified |-> FALSE, source |-> "none", cache |-> FALSE]
        ELSE IF proof \in receipts
        THEN [verified |-> TRUE, source |-> "cache", cache |-> FALSE]
        ELSE IF proof \notin WitnessProofs
        THEN [verified |-> FALSE, source |-> "none", cache |-> FALSE]
        ELSE IF env.USE_REAL_GATEWAY /\ env.hasRealWallet
        THEN IF rpcFails
             \* the catch falls through to the demo branch
             THEN simulated
             ELSE IF tx.status = "absent"
             THEN [verified |-> FALSE, source |-> "none", cache |-> FALSE]
             ELSE IF ~ReceiptConfirmed(tx)
             THEN [verified |-> FALSE, source |-> "none", cache |-> FALSE]
             ELSE [verified |-> TRUE, source |-> "on-chain", cache |-> TRUE]
        ELSE simulated

WitnessInit ==
    /\ witnessEnv \in WitnessEnvs
    /\ baseChain = [h \in WitnessProofs |-> NoBaseTx]
    /\ paymentReceipts = {}
    /\ ledgerConfirmed = {}
    /\ footage = NoFootage

\* WitnessBot takes no part in the run
WitnessIdle ==
    /\ witnessEnv = Null /\ baseChain = Null /\ paymentReceipts = Null
    /\ ledgerConfirmed = Null /\ footage = Null

\* somebody broadcasts a transaction on Base Sepolia
baseBroadcast ==
    \E h \in WitnessProofs, kind \in BaseTxKinds :
        /\ baseChain[h].status = "absent"
        /\ baseChain' = [baseChain EXCEPT ![h] = [status |-> "pending", kind |-> kind]]
        /\ UNCHANGED <<witnessEnv, paymentReceipts, ledgerConfirmed, footage, gateVars,
                       x402Vars, settleVars, decideVars, uiVars, peerVars>>

\* Base Sepolia executes a broadcast transaction
baseMine ==
    \E h \in WitnessProofs, outcome \in {"failed", "success"} :
        /\ baseChain[h].status = "pending"
        /\ baseChain' = [baseChain EXCEPT ![h].status = outcome]
        /\ UNCHANGED <<witnessEnv, paymentReceipts, ledgerConfirmed, footage, gateVars,
                       x402Vars, settleVars, decideVars, uiVars, peerVars>>

\* POST /robots/witness/footage
witnessFootage ==
    \E proof \in WitnessProofs \cup {MalformedProof, Null}, rpcFails \in BOOLEAN :
        LET verification ==
                VerifyPaymentProof(witnessEnv, paymentReceipts, baseChain, proof, rpcFails)
            tx == LookupBaseTx(baseChain, proof)
        IN  \* the provider's failure is an input only when the provider is asked
            /\ (rpcFails => (witnessEnv.USE_REAL_GATEWAY /\ witnessEnv.hasRealWallet))
            /\ paymentReceipts' = IF verification.cache
                                  THEN paymentReceipts \cup {proof} ELSE paymentReceipts
            /\ ledgerConfirmed' =
                 IF verification.source = "on-chain" /\ ConfirmedPaymentToWitness(tx)
                 THEN ledgerConfirmed \cup {proof} ELSE ledgerConfirmed
            /\ footage' = [status |-> IF verification.verified THEN 200 ELSE 402,
                           proof |-> proof, source |-> verification.source, tx |-> tx]
            /\ UNCHANGED <<witnessEnv, baseChain, gateVars, x402Vars, settleVars,
                           decideVars, uiVars, peerVars>>

---------------------------------------------------------------------------
(* Part VII - the zkML proof service: POST /prove after the payment gate,    *)
(* in its two versions: with the 15-second fast-mode timer (unnamed/part_002) *)
(* and without it (demos/ooak-agents/zkml-proof-service.cjs).  The handler   *)
(* returns after spawn; the timer callback and the close listener run later, *)
(* each in one turn of the event loop.                                       *)

ProveRequests == 1..MaxProveRequests

\* what the prover's stdout has delivered so far: nothing, a JSON proof, a JSON
\* object with success false, proof markers around text that is no JSON, other text
Outputs == {"", "json", "jsonFail", "badMarkers", "text"}

\* the exit code the close event reports; "null" is that of a process a signal ended
ExitCodes == {"0", "1", "null"}

NoProve ==
    [pc |-> "none", timer |-> "none", out |-> "", proofReturned |-> FALSE,
     killed |-> FALSE, code |-> "none", responses |-> <<>>]

\* the fast-mode timer callback's try block: every output yields a proof except
\* markers whose content JSON.parse rejects
FastModeExtract(out) == IF out = "badMarkers" THEN 500 ELSE 200

\* the close listener's answer once proofReturned was found false
CloseOutcome(fast, out, code) ==
    IF code # "0" THEN 500
    ELSE IF fast THEN (IF out = "badMarkers" THEN 500 ELSE 200)
    ELSE (IF out = "json" THEN 200 ELSE 500)

\* clearTimeout(fastModeTimeout)
ClearTimeout_Forgotten(timer) == timer
ClearTimeout(timer) == IF timer = "armed" THEN "cleared" ELSE timer

ProveInit ==
    /\ proveEnv \in [fastMode : BOOLEAN]
    /\ prove = [r \in ProveRequests |-> NoProve]

ProveIdle == proveEnv = Null /\ prove = Null

\* the handler up to its return: a mock proof at once, or spawn and, in the
\* fast-mode version, setTimeout
provePost ==
    \E r \in ProveRequests, useMockProofs \in BOOLEAN :
        /\ prove[r].pc = "none"
        /\ prove' = [prove EXCEPT ![r] =
              IF useMockProofs
              THEN [@ EXCEPT !.pc = "answered", !.responses = <<200>>]
              ELSE [@ EXCEPT !.pc = "running",
                             !.timer = IF proveEnv.fastMode THEN "armed" ELSE "none"]]
        /\ UNCHANGED <<proveEnv, coreVars, robotVars, clientVars>>

\* child.stdout.on('data'): out += d
childStdout ==
    \E r \in ProveRequests, o \in Outputs \ {""} :
        /\ prove[r].pc = "running"
        /\ prove[r].out \in {"", "text"}
        /\ prove[r].out # o
        /\ prove' = [prove EXCEPT ![r].out = o]
        /\ UNCHANGED <<proveEnv, coreVars, robotVars, clientVars>>

\* the setTimeout callback, 15 seconds after spawn
fastModeTimeout ==
    \E r \in ProveRequests :
        /\ prove[r].timer = "armed"
        /\ prove' = [prove EXCEPT ![r] =
              IF @.proofReturned
              THEN [@ EXCEPT !.timer = "fired"]
              ELSE [@ EXCEPT !.timer = "fired",
                             !.proofReturned = TRUE,
                             !.killed = TRUE,
                             !.responses = Append(@, FastModeExtract(prove[r].out))]]
        /\ UNCHANGED <<proveEnv, coreVars, robotVars, clientVars>>

\* child.on('close', code)
childClose ==
    \E r \in ProveRequests, code \in ExitCodes :
        /\ prove[r].pc = "running"
        /\ LET answer == CloseOutcome(proveEnv.fastMode, prove[r].out, code)
               timer == IF proveEnv.fastMode THEN ClearTimeout(prove[r].timer)
                        ELSE prove[r].timer
           IN  prove' = [prove EXCEPT ![r] =
                  IF @.proofReturned
                  THEN [@ EXCEPT !.pc = "closed", !.code = code, !.timer = timer]
                  ELSE [@ EXCEPT !.pc = "closed", !.code = code, !.timer = timer,
                                 !.proofReturned =
                                     (~proveEnv.fastMode /\ answer = 200),
                                 !.responses = Append(@, answer)]]
        /\ UNCHANGED <<proveEnv, coreVars, robotVars, clientVars>>

---------------------------------------------------------------------------
(* Part VIII - DeliveryBot: POST /robot/process-sensor and POST /robot/reset *)
(* (demos/trustless-robot-commerce/server.cjs).  Amounts are in hundredths   *)
(* of USDC.  A handler runs from one await to the next in one turn of the     *)
(* event loop; the turns of concurrent requests interleave.                  *)

SensorRequests == 1..MaxSensorRequests

\* robotState as the module and /robot/reset set it
InitialRobotState ==
    [budget |-> InitialBudget, totalSpent |-> 0, transactions |-> 0]

\* if (robotState.budget < WITNESSBOT.price)
InsufficientBudget(state) == state.budget < WitnessPrice

\* robotState.budget -= WITNESSBOT.price; robotState.totalSpent += WITNESSBOT.price
DebitPrice_BudgetOnly(state) == [state EXCEPT !.budget = @ - WitnessPrice]
DebitPrice(state) ==
    [state EXCEPT !.budget = @ - WitnessPrice, !.totalSpent = @ + WitnessPrice]

\* robotState.transactions.unshift(transaction), cut to the newest fifty
RecordTransaction(state) ==
    [state EXCEPT !.transactions = IF @ < MaxTransactions THEN @ + 1 ELSE @]

NoSensorAnswer == [request |-> 0, status |-> 0, result |-> "none"]

RobotInit ==
    /\ robotState = InitialRobotState
    /\ sensor = [r \in SensorRequests |-> "none"]
    /\ sensorAnswer = NoSensorAnswer

RobotIdle == robotState = Null /\ sensor = Null /\ sensorAnswer = Null

\* the handler from the decision's await to the payment's await: denied, out of
\* budget, or on to the Gateway payment
processSensor ==
    \E r \in SensorRequests, decision \in BOOLEAN :
        /\ sensor[r] = "none"
        /\ IF ~decision
           THEN /\ sensorAnswer' = [request |-> r, status |-> 200, result |-> "denied"]
                /\ UNCHANGED sensor
           ELSE IF InsufficientBudget(robotState)
           THEN /\ sensorAnswer' = [request |-> r, status |-> 200,
                                    result |-> "insufficientBudget"]
                /\ UNCHANGED sensor
           ELSE /\ sensor' = [sensor EXCEPT ![r] = "paying"]
                /\ UNCHANGED sensorAnswer
        /\ UNCHANGED <<robotState, coreVars, proveVars, clientVars>>

\* the Gateway payment settles or throws: debit, or the 500 of the catch
gatewayPayment ==
    \E r \in SensorRequests, paid \in BOOLEAN :
        /\ sensor[r] = "paying"
        /\ IF paid
           THEN /\ robotState' = DebitPrice(robotState)
                /\ sensor' = [sensor EXCEPT ![r] = "fetching"]
                /\ UNCHANGED sensorAnswer
           ELSE /\ sensor' = [sensor EXCEPT ![r] = "none"]
                /\ sensorAnswer' = [request |-> r, status |-> 500,
                                    result |-> "paymentFailed"]
                /\ UNCHANGED robotState
        /\ UNCHANGED <<coreVars, proveVars, clientVars>>

\* WitnessBot answered or the fetch failed: the transaction is recorded either way
footageAnswered ==
    \E r \in SensorRequests :
        /\ sensor[r] = "fetching"
        /\ robotState' = RecordTransaction(robotState)
        /\ sensor' = [sensor EXCEPT ![r] = "none"]
        /\ sensorAnswer' = [request |-> r, status |-> 200, result |-> "complete"]
        /\ UNCHANGED <<coreVars, proveVars, clientVars>>

\* POST /robot/reset
robotReset ==
    /\ robotState' = InitialRobotState
    /\ sensorAnswer' = [request |-> 0, status |-> 200, result |-> "reset"]
    /\ UNCHANGED <<sensor, coreVars, proveVars, clientVars>>

---------------------------------------------------------------------------
(* Part IX - X402Client.request (unnamed/part_001, lines 292-378): one call  *)
(* from its first fetch to its return or throw, one action per await.        *)

ClientCalls == 1..MaxClientCalls

\* the HTTP statuses the protected service answers with
ClientStatuses == {200, 402, 500}

\* the X-PAYMENT-RESPONSE header of the paid answer: absent, base64 JSON, or not JSON
PaymentResponseHeaders == {"absent", "json", "garbled"}

NoClientCall ==
    [pc |-> "idle", fetches |-> 0, payments |-> 0, status |-> 0, paidStatus |-> 0,
     ended |-> "no", payment |-> FALSE]

\* what request() does with the answer to the paid retry: it returns the body
AfterPaidResponse_PayAgain(status) == IF status = 402 THEN "pay" ELSE "return"
AfterPaidResponse(status) == "return"

\* an await rejected: request() has no try, the rejection reaches the caller
Throws(call) == [call EXCEPT !.pc = "done", !.ended = "threw"]

ClientInit == client = [c \in ClientCalls |-> NoClientCall]

\* Step 1: the initial fetch is sent, without a payment header
clientRequest ==
    \E c \in ClientCalls :
        /\ client[c].pc = "idle"
        /\ client' = [client EXCEPT ![c] = [@ EXCEPT !.pc = "initialFetch",
                                                     !.fetches = @ + 1]]
        /\ UNCHANGED <<coreVars, proveVars, robotVars>>

\* the initial fetch settles: any status but 402 returns the parsed body; a 402 is
\* parsed for accepts[0] and the payment transaction is submitted
initialAnswered ==
    \E c \in ClientCalls, reached \in BOOLEAN, status \in ClientStatuses,
       accepts \in BOOLEAN :
        /\ client[c].pc = "initialFetch"
        /\ client' = [client EXCEPT ![c] =
              IF ~reached THEN Throws(@)
              ELSE IF status # 402
              THEN [@ EXCEPT !.pc = "done", !.status = status, !.ended = "returned"]
              ELSE IF ~accepts THEN Throws([@ EXCEPT !.status = status])
              ELSE [@ EXCEPT !.pc = "paying", !.status = status]]
        /\ UNCHANGED <<coreVars, proveVars, robotVars>>

\* Step 3, makePayment: usdc.transfer is sent or rejected
paymentSent ==
    \E c \in ClientCalls, sent \in BOOLEAN :
        /\ client[c].pc = "paying"
        /\ client' = [client EXCEPT ![c] =
              IF sent THEN [@ EXCEPT !.pc = "confirming", !.payments = @ + 1]
              ELSE Throws(@)]
        /\ UNCHANGED <<coreVars, proveVars, robotVars>>

\* Steps 4 to 6: waitForTransaction settles; the retry is sent with X-PAYMENT
paymentConfirmed ==
    \E c \in ClientCalls, confirmed \in BOOLEAN :
        /\ client[c].pc = "confirming"
        /\ client' = [client EXCEPT ![c] =
              IF confirmed THEN [@ EXCEPT !.pc = "paidFetch", !.fetches = @ + 1]
              ELSE Throws(@)]
        /\ UNCHANGED <<coreVars, proveVars, robotVars>>

\* the paid retry settles: the body is parsed, the payment header attached, and the
\* body returned whatever the status
paidAnswered ==
    \E c \in ClientCalls, reached \in BOOLEAN, status \in ClientStatuses,
       header \in PaymentResponseHeaders :
        /\ client[c].pc = "paidFetch"
        /\ client' = [client EXCEPT ![c] =
              IF ~reached THEN Throws(@)
              ELSE IF header = "garbled" THEN Throws([@ EXCEPT !.paidStatus = status])
              ELSE IF AfterPaidResponse(status) = "pay"
              THEN [@ EXCEPT !.pc = "paying", !.paidStatus = status]
              ELSE [@ EXCEPT !.pc = "done", !.paidStatus = status,
                             !.ended = "returned", !.payment = (header = "json")]]
        /\ UNCHANGED <<coreVars, proveVars, robotVars>>

\* the client takes no part in the run
ClientIdle == client = Null

\* the services of Parts VII and later take no part in the run
PeerIdle == ProveIdle /\ RobotIdle /\ ClientIdle

---------------------------------------------------------------------------
(* Specifications *)

\* the contract takes no part in the run
GateIdle ==
    /\ owner = Null /\ usedNonces = Null /\ balance = Null
    /\ events = Null /\ now = Null /\ last = Null

\* the Authorization Gate alone
Init == GateInit /\ X402Idle /\ AgentIdle /\ DecideIdle /\ UiIdle /\ WitnessIdle /\ PeerIdle

Next == executeTransfer \/ deposit \/ withdraw \/ Tick

Spec == Init /\ [][Next]_vars

\* the Payment Challenge Gate alone, with or without a facilitator
InitX402 == GateIdle /\ X402Init /\ AgentIdle /\ DecideIdle /\ UiIdle /\ WitnessIdle /\ PeerIdle

NextX402 ==
    \/ BroadcastTx
    \/ MineTx
    \/ middlewareNoHeader
    \/ middlewareBadHeader
    \/ middlewareWithPayment

SpecX402 == InitX402 /\ [][NextX402]_vars

\* the compliance agent beside the Authorization Gate it pays through
InitSettle ==
    /\ owner = "deployer"
    /\ usedNonces = {}
    /\ balance = 0
    /\ events = <<>>
    /\ now = 1
    /\ last = [NoCall EXCEPT !.time = 1]
    /\ X402Idle
    /\ AgentInit
    /\ DecideIdle
    /\ UiIdle
    /\ WitnessIdle /\ PeerIdle

NextSettle ==
    \/ startAgent
    \/ clockTick
    \/ settleRequest
    \/ screenSender
    \/ screenRecipient
    \/ generateProof
    \/ signStep
    \/ controllerTransfer
    \/ fallbackTransfer
    \/ circleTransfer
    \/ eoaTransfer
    \/ deposit

SpecSettle == InitSettle /\ [][NextSettle]_vars

\* the decision services alone
InitDecide == GateIdle /\ X402Idle /\ AgentIdle /\ DecideInit /\ UiIdle /\ WitnessIdle /\ PeerIdle

NextDecide ==
    \/ complianceCheck
    \/ transferExecute
    \/ walletAuthorize
    \/ shouldPurchase

SpecDecide == InitDecide /\ [][NextDecide]_vars

\* the UI server of the settlement agent
InitUi == GateIdle /\ X402Idle /\ AgentIdle /\ DecideIdle /\ UiInit /\ WitnessIdle /\ PeerIdle

NextUi ==
    \/ startUi
    \/ apiApprove
    \/ apiJoltAttest
    \/ apiCommitStore
    \/ apiSendUsdc

SpecUi == InitUi /\ [][NextUi]_vars

\* WitnessBot beside the Base Sepolia ledger
InitWitness ==
    GateIdle /\ X402Idle /\ AgentIdle /\ DecideIdle /\ UiIdle /\ WitnessInit /\ PeerIdle

NextWitness ==
    \/ baseBroadcast
    \/ baseMine
    \/ witnessFootage

SpecWitness == InitWitness /\ [][NextWitness]_vars

InitProve ==
    GateIdle /\ X402Idle /\ AgentIdle /\ DecideIdle /\ UiIdle /\ WitnessIdle /\ ProveInit
    /\ RobotIdle /\ ClientIdle

NextProve ==
    \/ provePost
    \/ childStdout
    \/ fastModeTimeout
    \/ childClose

SpecProve == InitProve /\ [][NextProve]_vars

InitRobot ==
    GateIdle /\ X402Idle /\ AgentIdle /\ DecideIdle /\ UiIdle /\ WitnessIdle /\ ProveIdle
    /\ RobotInit /\ ClientIdle

NextRobot ==
    \/ processSensor
    \/ gatewayPayment
    \/ footageAnswered
    \/ robotReset

SpecRobot == InitRobot /\ [][NextRobot]_vars

InitClient ==
    GateIdle /\ X402Idle /\ AgentIdle /\ DecideIdle /\ UiIdle /\ WitnessIdle /\ ProveIdle
    /\ RobotIdle /\ ClientInit

NextClient ==
    \/ clientRequest
    \/ initialAnswered
    \/ paymentSent
    \/ paymentConfirmed
    \/ paidAnswered

SpecClient == InitClient /\ [][NextClient]_vars

---------------------------------------------------------------------------
(* Vocabulary of the claims about the Authorization Gate.  Every condition  *)
(* is read off the recorded call, never off the operators of the handler.   *)

IsExecuteTransfer == last.op = "executeTransfer"

PresentedAuthorized == last.c.decision = 1
PresentedNonceUnused == last.c.nonce \notin last.preNonces
PresentedFresh == last.time <= last.c.timestamp + 3600
PresentedExpiryFits == last.c.timestamp + 3600 <= MaxUint
PresentedSignedByOwner ==
    /\ last.sig.kind = "ecdsa"
    /\ last.sig.key = owner
    /\ last.sig.digest = [domain |-> ThisDomain, struct |-> StructHash(last.c)]
PresentedAllFour ==
    PresentedAuthorized /\ PresentedNonceUnused /\ PresentedFresh /\ PresentedSignedByOwner

\* the call paid last.amount out of custody to last.to
TransferredToRecipient ==
    /\ last.result = "ok"
    /\ last.moved = [to |-> last.to, amount |-> last.amount]
    /\ balance = last.preBalance - last.amount

\* the call moved nothing out of custody
TransferredNothing ==
    /\ last.result # "ok"
    /\ last.moved = NoMove
    /\ balance = last.preBalance

\* the call changed neither the storage, the log nor the custody balance
NoStateMutation ==
    /\ usedNonces = last.preNonces
    /\ Len(events) = last.preEvents
    /\ balance = last.preBalance

EventsWithNonce(n) == {i \in DOMAIN events : events[i].nonce = n}

---------------------------------------------------------------------------
(* C1 *)

\* C1 as stated: executeTransfer transfers amount to recipient if and only if the
\* decision is AUTHORIZED, the nonce is unused, now <= timestamp + freshnessWindow and
\* the signature recovers to the registered signer; otherwise it transfers nothing.
C1_TransferIffFourChecks ==
    IsExecuteTransfer =>
        /\ PresentedAllFour => TransferredToRecipient
        /\ ~PresentedAllFour => TransferredNothing

\* C1 as amended: executeTransfer transfers amount to recipient if and only if the four
\* conditions hold and, in addition, timestamp + freshnessWindow fits uint256 and the
\* custody balance covers amount; in every other case it transfers nothing.
C1_TransferIffFourChecksAndFunds ==
    IsExecuteTransfer =>
        LET all == /\ PresentedAllFour
                   /\ PresentedExpiryFits
                   /\ last.preBalance >= last.amount
        IN  /\ all => TransferredToRecipient
            /\ ~all => TransferredNothing

C1_Witness ==
    /\ IsExecuteTransfer
    /\ PresentedAllFour
    /\ TransferredToRecipient
    /\ last.amount > 0

---------------------------------------------------------------------------
(* C2 *)

\* C2: for every nonce N, at most one executeTransfer call presenting nonce N succeeds:
\* the log holds at most one TransferExecuted per nonce, and a call that succeeds
\* presented a nonce no earlier call had consumed.
C2_AtMostOneSuccessPerNonce ==
    /\ \A n \in Nonces : Cardinality(EventsWithNonce(n)) <= 1
    /\ (IsExecuteTransfer /\ last.result = "ok") => PresentedNonceUnused

\* a correctly signed, authorized, fresh commitment resubmitted with funds in custody
C2_Witness ==
    /\ IsExecuteTransfer
    /\ ~PresentedNonceUnused
    /\ PresentedAuthorized /\ PresentedFresh /\ PresentedSignedByOwner
    /\ last.preBalance >= last.amount
    /\ last.result # "ok"

---------------------------------------------------------------------------
(* C3 *)

---------------------------------------------------------------------------
(* C4 *)

\* C4: nonce insertion, transfer and audit record are atomic: when the token transfer
\* of an otherwise valid call fails, the nonce is not in NonceSet afterwards, no
\* TransferExecuted record exists for it and the custody balance is unchanged.
C4_FailedTransferRollsBack ==
    (/\ IsExecuteTransfer
     /\ PresentedAllFour /\ PresentedExpiryFits
     /\ last.preBalance < last.amount)
    => /\ last.result = "TransferFailed"
       /\ last.c.nonce \notin usedNonces
       /\ EventsWithNonce(last.c.nonce) = {}
       /\ Len(events) = last.preEvents
       /\ balance = last.preBalance

C4_Witness ==
    /\ IsExecuteTransfer
    /\ PresentedAllFour /\ PresentedExpiryFits
    /\ last.preBalance < last.amount
    /\ last.result = "TransferFailed"

---------------------------------------------------------------------------
(* C5 *)

\* C5 as stated: a call whose signature does not recover to the registered signer
\* fails with InvalidSignature and mutates no state.
C5_BadSignatureIsInvalidSignature ==
    (IsExecuteTransfer /\ ~PresentedSignedByOwner)
    => (last.result = "InvalidSignature" /\ NoStateMutation)

\* C5 as amended: a call whose signature does not recover to the registered signer
\* always fails and mutates no state; it fails with InvalidSignature when the checks
\* made before the signature (nonce, decision, freshness) pass, and with the reason of
\* the first of those checks that fails otherwise.
C5_BadSignatureFailsWithoutMutation ==
    (IsExecuteTransfer /\ ~PresentedSignedByOwner)
    => /\ last.result # "ok"
       /\ NoStateMutation
       /\ (PresentedNonceUnused /\ PresentedAuthorized /\ PresentedExpiryFits
             /\ PresentedFresh)
          <=> last.result = "InvalidSignature"

\* signed by a key other than the registered signer, everything else in order
C5_Witness ==
    /\ IsExecuteTransfer
    /\ last.sig.kind = "ecdsa" /\ last.sig.key # owner
    /\ last.sig.digest = [domain |-> ThisDomain, struct |-> StructHash(last.c)]
    /\ last.preBalance >= last.amount
    /\ last.result = "InvalidSignature"

---------------------------------------------------------------------------
(* C6 *)

\* C6: no call whose commitment has decision # AUTHORIZED transfers funds, whether or
\* not its signature is valid, the denied code 0 included.
C6_UnauthorizedNeverTransfers ==
    (IsExecuteTransfer /\ ~PresentedAuthorized) => (TransferredNothing /\ NoStateMutation)

\* a validly signed, fresh, unused commitment with a decision other than 0 and 1
C6_Witness ==
    /\ IsExecuteTransfer
    /\ last.c.decision = 2
    /\ PresentedSignedByOwner /\ PresentedNonceUnused /\ PresentedFresh
    /\ last.preBalance >= last.amount
    /\ last.result = "NotAuthorized"

---------------------------------------------------------------------------
(* C7 *)

PresentedStale == last.c.timestamp < last.time - 3600
PassedFreshness == last.result \notin {"CommitmentExpired", "Panic"}

\* C7 as stated: a call presenting a commitment with timestamp < now - freshnessWindow
\* fails with CommitmentExpired even if its signature is valid, and a commitment is
\* accepted by the freshness check exactly when now <= timestamp + freshnessWindow.
C7_StaleIsCommitmentExpired ==
    IsExecuteTransfer =>
        /\ PresentedStale => last.result = "CommitmentExpired"
        /\ (PresentedNonceUnused /\ PresentedAuthorized)
             => (PassedFreshness <=> PresentedFresh)

\* C7 as amended: a call that passes the nonce and decision checks and presents a
\* commitment with timestamp < now - freshnessWindow fails with CommitmentExpired even
\* if its signature is valid; among such calls the freshness check accepts exactly those
\* with now <= timestamp + freshnessWindow whose timestamp + freshnessWindow fits
\* uint256 (the sum is checked arithmetic and an overflow reverts the call).
C7_StaleIsExpiredAfterEarlierChecks ==
    (IsExecuteTransfer /\ PresentedNonceUnused /\ PresentedAuthorized) =>
        /\ PresentedStale => last.result = "CommitmentExpired"
        /\ PassedFreshness <=> (PresentedFresh /\ PresentedExpiryFits)
        /\ (~PresentedFresh /\ PresentedExpiryFits) <=> last.result = "CommitmentExpired"

\* one second past the window, signature valid
C7_Witness ==
    /\ IsExecuteTransfer
    /\ last.time = last.c.timestamp + 3600 + 1
    /\ PresentedSignedByOwner /\ PresentedNonceUnused /\ PresentedAuthorized
    /\ last.result = "CommitmentExpired"

---------------------------------------------------------------------------
(* C8 *)

\* C8: the custody balance is debited only by a successful executeTransfer or by a
\* withdraw the owner called; no other operation and no other caller debits it.
C8_OnlyTransferOrOwnerWithdrawDebits ==
    balance < last.preBalance =>
        \/ (IsExecuteTransfer /\ last.result = "ok" /\ PresentedAllFour)
        \/ (last.op = "withdraw" /\ last.result = "ok" /\ last.caller = owner)

\* the owner's withdrawal debits custody
C8_Witness ==
    /\ last.op = "withdraw"
    /\ last.caller = owner
    /\ last.result = "ok"
    /\ balance = last.preBalance - last.amount
    /\ last.amount > 0

---------------------------------------------------------------------------
(* C9 *)

\* C9 as stated: deposit and withdraw are owner-only: a call to either by an account
\* other than the owner is rejected and leaves the custody balance unchanged.
C9_DepositAndWithdrawOwnerOnly ==
    (last.op \in {"deposit", "withdraw"} /\ last.caller # owner)
    => (last.result # "ok" /\ balance = last.preBalance)

\* C9 as amended: withdraw is owner-only: a call by an account other than the owner is
\* rejected and leaves the custody balance unchanged.  deposit is open to every
\* account: it succeeds whenever the token accepts the transferFrom, whoever calls, and
\* then credits amount to the custody balance; a failed deposit leaves it unchanged.
C9_WithdrawOwnerOnlyDepositOpen ==
    /\ (last.op = "withdraw" /\ last.caller # owner)
          => (last.result = "Unauthorized" /\ balance = last.preBalance)
    /\ last.op = "deposit"
          => /\ last.result \in {"ok", "DepositFailed"}
             /\ last.result = "ok" => balance = last.preBalance + last.amount
             /\ last.result = "DepositFailed" => balance = last.preBalance

\* a withdrawal the custody balance could pay, called by another account
C9_Witness ==
    /\ last.op = "withdraw"
    /\ last.caller # owner
    /\ last.preBalance >= last.amount
    /\ last.result = "Unauthorized"

\* an account other than the owner deposits
C9_DepositByStranger ==
    /\ last.op = "deposit"
    /\ last.caller # owner
    /\ last.result = "ok"

---------------------------------------------------------------------------
(* C10 *)

\* the transaction the proof refers to exists, succeeded, and moved at least the
\* required amount of USDC to the required recipient
ReferencedTxPaid ==
    /\ exchange.ledgerTx.status = "success"
    /\ PaidTo(exchange.ledgerTx, PayTo) >= RequiredAmount

\* C10: the payment gate invokes the protected handler only if the transaction the
\* proof refers to exists and succeeded on the ledger, paid requirement.recipient and
\* transferred an amount >= requirement.amount.  Stated for the gate that queries the
\* ledger itself (no facilitator configured), which is the default configuration.
C10_HandlerOnlyAfterPayment ==
    (facilitatorUrl = Null /\ exchange.nextCalled) => ReferencedTxPaid

---------------------------------------------------------------------------
(* C15 *)

\* the registered signer's signature over the identical commitment, made for a gate
\* whose EIP-712 domain differs from this gate's in contract address or in chain id
PresentedForOtherGate ==
    /\ last.sig.kind = "ecdsa"
    /\ last.sig.key = owner
    /\ last.sig.digest.struct = StructHash(last.c)
    /\ last.sig.digest.domain # ThisDomain
    /\ \/ last.sig.digest.domain.verifyingContract # ThisDomain.verifyingContract
       \/ last.sig.digest.domain.chainId # ThisDomain.chainId

\* C15 as stated: a signature produced for one gate instance on one chain is rejected
\* with InvalidSignature by every gate instance with a different contract address or a
\* different chainId, even when the commitment is identical and the signer is that
\* gate's registered signer.
C15_OtherGateSignatureIsInvalidSignature ==
    (IsExecuteTransfer /\ PresentedForOtherGate) => last.result = "InvalidSignature"

\* C15 as amended: such a signature is rejected by every gate instance with a different
\* contract address or chainId and changes no state there; the rejection reason is
\* InvalidSignature exactly when the commitment passes the checks made before the
\* signature (nonce, decision, freshness), and the reason of the first of those checks
\* that fails otherwise.
C15_OtherGateSignatureRejected ==
    (IsExecuteTransfer /\ PresentedForOtherGate)
    => /\ last.result # "ok"
       /\ NoStateMutation
       /\ (PresentedNonceUnused /\ PresentedAuthorized /\ PresentedExpiryFits
             /\ PresentedFresh)
          <=> last.result = "InvalidSignature"

\* the owner's signature for the same contract address on another chain, everything
\* else in order and funds in custody
C15_Witness ==
    /\ IsExecuteTransfer
    /\ PresentedForOtherGate
    /\ last.sig.digest.domain.chainId # ThisDomain.chainId
    /\ last.sig.digest.domain.verifyingContract = ThisDomain.verifyingContract
    /\ PresentedNonceUnused /\ PresentedAuthorized /\ PresentedFresh
    /\ last.preBalance >= last.amount
    /\ last.result = "InvalidSignature"

---------------------------------------------------------------------------
(* C16 *)

\* the signature handleSettle obtains for the commitment it submits: the registered
\* signer's wallet, the controller field list, the domain of this gate's address
ServiceSigned == last.sig = signControllerCommitment(owner, last.c, Controller)

\* C16: the payload the signing side signs (field list, field types, domain name,
\* version, chainId, verifyingContract) is the payload the gate re-derives, so every
\* commitment the service signs with the registered signer's key for this gate passes
\* the gate's signature check: the call is never rejected with InvalidSignature, and
\* it is executed whenever the other checks pass and custody covers the amount.
C16_ServiceSignaturePassesGate ==
    (IsExecuteTransfer /\ ServiceSigned)
    => /\ last.sig.digest = HashTypedDataV4(ThisDomain, StructHash(last.c))
       /\ last.result # "InvalidSignature"
       /\ (PresentedNonceUnused /\ PresentedAuthorized /\ PresentedExpiryFits
             /\ PresentedFresh /\ last.preBalance >= last.amount)
          => TransferredToRecipient

C16_Witness ==
    /\ IsExecuteTransfer
    /\ ServiceSigned
    /\ last.result = "ok"
    /\ Len(events) = last.preEvents + 1

---------------------------------------------------------------------------
(* C17 *)

\* the checks the presented call fails, by the order the claim gives them
FailedChecks ==
    (IF PresentedNonceUnused THEN {} ELSE {1})
    \cup (IF PresentedAuthorized THEN {} ELSE {2})
    \cup (IF PresentedFresh THEN {} ELSE {3})
    \cup (IF PresentedSignedByOwner THEN {} ELSE {4})

ReasonOfCheck ==
    <<"NonceReplay", "NotAuthorized", "CommitmentExpired", "InvalidSignature">>

FirstFailedCheck == CHOOSE i \in FailedChecks : \A j \in FailedChecks : i <= j

\* C17: executeTransfer evaluates its checks in the order nonce replay, decision,
\* freshness, signature: a submission that fails several checks is rejected with the
\* reason of the first failing check in that order, and changes no state.
C17_FirstFailingCheckDecidesReason ==
    (IsExecuteTransfer /\ Cardinality(FailedChecks) >= 2)
    => /\ last.result = ReasonOfCheck[FirstFailedCheck]
       /\ NoStateMutation

\* a replayed nonce presented with a signature of another key: NonceReplay
C17_Witness ==
    /\ IsExecuteTransfer
    /\ FailedChecks = {1, 4}
    /\ last.sig.kind = "ecdsa"
    /\ last.result = "NonceReplay"

---------------------------------------------------------------------------
(* C20 *)

\* C20: NonceSet changes only by the insertion of the nonce of a successfully executed
\* transfer: no step removes a nonce, a step that changes the set is a successful
\* executeTransfer that adds exactly its own nonce, and deposit, withdraw and every
\* rejected or failed executeTransfer leave the set as it was.
C20_NonceSetGrowsOnlyBySuccess ==
    [][/\ usedNonces \subseteq usedNonces'
       /\ usedNonces' # usedNonces
            => /\ last'.op = "executeTransfer"
               /\ last'.result = "ok"
               /\ last'.c.nonce \notin usedNonces
               /\ usedNonces' = usedNonces \cup {last'.c.nonce}
       /\ (last'.op \in {"deposit", "withdraw"}
            \/ (last'.op = "executeTransfer" /\ last'.result # "ok"))
            => usedNonces' = usedNonces]_vars

\* a failed token transfer of an otherwise valid call, the nonce still unused after it
C20_Witness ==
    /\ IsExecuteTransfer
    /\ last.result = "TransferFailed"
    /\ PresentedAllFour
    /\ last.c.nonce \notin usedNonces

---------------------------------------------------------------------------
(* Vocabulary of the claims about the Payment Challenge Gate.  Every         *)
(* condition is read off the recorded exchange and the ledger.               *)

PaymentPresented == exchange.header = "payment"

\* the gate queries the ledger itself: no facilitator is configured
LedgerChecked == facilitatorUrl = Null

SupportedSchemeVersion ==
    exchange.payment.x402Version = 1 /\ exchange.payment.scheme = "exact"

NetworkMatches == exchange.payment.network = <<"arc-testnet:5042002">>

ReferencesTx ==
    exchange.payment.payload.defined /\ exchange.payment.payload.txHash # Null

\* the referenced transaction succeeded and names the required recipient as the payee:
\* a token transfer to it, or a transaction sent to it
DirectedAtRecipient ==
    /\ exchange.ledgerTx.status = "success"
    /\ \/ /\ exchange.ledgerTx.to = UsdcAddress
          /\ exchange.ledgerTx.data.fn \in {"transfer", "transferFrom"}
          /\ exchange.ledgerTx.data.to = PayTo
       \/ exchange.ledgerTx.to = PayTo

TransferredAmount == PaidTo(exchange.ledgerTx, PayTo)

ValidButForAmount ==
    /\ LedgerChecked /\ PaymentPresented
    /\ SupportedSchemeVersion /\ NetworkMatches /\ ReferencesTx
    /\ DirectedAtRecipient

---------------------------------------------------------------------------
(* C11 *)

\* C11: verifyPayment returns Rejected(InsufficientAmount) for every proof whose
\* transferred amount is less than requirement.amount, the other fields being valid:
\* the referenced transaction succeeded and moved some USDC to the required recipient,
\* but less than required.  The protected handler does not run.
C11_InsufficientAmountRejected ==
    (ValidButForAmount /\ TransferredAmount > 0 /\ TransferredAmount < 1000)
    => /\ ~exchange.verification.valid
       /\ exchange.verification.error = "Insufficient payment"
       /\ ~exchange.nextCalled

---------------------------------------------------------------------------
(* C12 *)

\* C12: verifyPayment returns Verified for every (proof, requirement) pair in which
\* the scheme and version are supported, the network matches, and the referenced
\* transaction succeeded and paid the required recipient an amount >=
\* requirement.amount, the amount exactly equal to the requirement included.
C12_ValidPaymentVerified ==
    (/\ LedgerChecked /\ PaymentPresented
     /\ SupportedSchemeVersion /\ NetworkMatches /\ ReferencesTx
     /\ ReferencedTxPaid)
    => /\ exchange.verification.valid
       /\ exchange.nextCalled
       /\ exchange.status = 200

---------------------------------------------------------------------------
(* C13 *)

\* the cause for which the ledger makes verification of exchange e fail, for a proof
\* that carries the configured network identifier
FailureCause(e) ==
    IF e.ledgerTx.status \in {"absent", "pending"} THEN "TxNotFound"
    ELSE IF e.ledgerTx.status = "failed" THEN "TxFailed"
    ELSE IF PaidTo(e.ledgerTx, PayTo) = 0 /\ PaidTo(e.ledgerTx, Stranger) > 0
    THEN "WrongRecipient"
    ELSE IF PaidTo(e.ledgerTx, PayTo) > 0 /\ PaidTo(e.ledgerTx, PayTo) < 1000
    THEN "InsufficientAmount"
    ELSE "other"

\* a proof of the supported scheme and version, on the configured network, referring
\* to a transaction, refused
RefusedWithCause(e) ==
    /\ e.header = "payment"
    /\ e.status = 402
    /\ e.payment.x402Version = 1 /\ e.payment.scheme = "exact"
    /\ e.payment.network = <<"arc-testnet:5042002">>
    /\ e.payment.payload.defined /\ e.payment.payload.txHash # Null
    /\ FailureCause(e) # "other"

\* C13: every verification failure is surfaced to the caller with the one specific
\* reason of the check that failed: two refusals that have different causes carry
\* different reasons in the challenge returned to the caller, so a missing transaction
\* and a failed transaction are told apart.
C13_DifferentCausesDifferentReasons ==
    [][(/\ LedgerChecked
        /\ RefusedWithCause(exchange) /\ RefusedWithCause(exchange')
        /\ FailureCause(exchange) # FailureCause(exchange'))
       => exchange.challenge.error # exchange'.challenge.error]_vars

---------------------------------------------------------------------------
(* C14 *)

\* C14: a payment that has already unlocked a protected call cannot be presented again
\* later to unlock another one: no transaction's proof unlocks more than one call.
C14_PaymentUnlocksAtMostOnce ==
    LedgerChecked => \A h \in TxHashes : unlocked[h] <= 1

---------------------------------------------------------------------------
(* C18 *)

\* C18: verifyPayment rejects with NetworkMismatch every proof whose network
\* identifier differs from the configured one; only a proof carrying exactly the
\* configured identifier passes the network check.
C18_OtherNetworkIsMismatch ==
    (/\ PaymentPresented /\ SupportedSchemeVersion
     /\ exchange.payment.network \in Networks
     /\ ~NetworkMatches)
    => /\ ~exchange.verification.valid
       /\ exchange.verification.error = "Network mismatch"

---------------------------------------------------------------------------
(* C19 *)

\* C19: a request to a protected resource that carries no payment proof is always
\* answered with status 402 and a challenge containing a payment requirement (scheme,
\* network, exact amount, recipient, asset, requestId), and the protected handler is
\* not invoked for that request.
C19_NoProofGetsChallenge ==
    exchange.header = "absent"
    => /\ exchange.status = 402
       /\ ~exchange.nextCalled
       /\ exchange.challenge.x402Version = 1
       /\ Len(exchange.challenge.accepts) = 1
       /\ LET requirement == exchange.challenge.accepts[1]
          IN  /\ requirement.scheme = "exact"
              /\ requirement.network = <<"arc-testnet:5042002">>
              /\ requirement.maxAmountRequired = 1000
              /\ requirement.payTo = PayTo
              /\ requirement.asset = UsdcAddress
              /\ requirement.metadata.requestId \in RequestIds

\* a request without a proof, made while a sufficient payment is already on the ledger
C19_Witness ==
    /\ exchange.header = "absent"
    /\ exchange.status = 402
    /\ \E h \in TxHashes :
          chain[h].status = "success" /\ PaidTo(chain[h], PayTo) >= 1000

---------------------------------------------------------------------------
(* C21 *)

\* C21: the TransferExecuted log grows by exactly one record in a step that is a
\* successful executeTransfer, and that record carries the call's recipient, amount,
\* proofHash, decision, nonce and timestamp; in every other step (a failed call, a
\* deposit, a withdrawal, a later block) the log is left as it was, so no record is
\* ever added, changed or removed otherwise.
C21_AuditRecordPerSuccessfulTransfer ==
    [][IF last'.op = "executeTransfer" /\ last'.result = "ok"
       THEN /\ Len(events') = Len(events) + 1
            /\ SubSeq(events', 1, Len(events)) = events
            /\ events'[Len(events')] =
                  [to |-> last'.to, amount |-> last'.amount,
                   proofHash |-> last'.c.proofHash, decision |-> last'.c.decision,
                   nonce |-> last'.c.nonce, timestamp |-> last'.c.timestamp]
       ELSE events' = events]_vars

\* a transfer has just succeeded and its record is the newest of the log
C21_Witness ==
    /\ last.op = "executeTransfer"
    /\ last.result = "ok"
    /\ Len(events) = last.preEvents + 1
    /\ events[Len(events)].proofHash = last.c.proofHash
    /\ events[Len(events)].to = last.to

---------------------------------------------------------------------------
(* Vocabulary of the claims about the compliance agent *)

ControllerMode == agentEnv.ARC_AGENT_CONTROLLER_ADDRESS # Null

\* the settlements whose USDC reached the recipient, and the path it took
MovedFunds == {t \in transfers : t.ok}

---------------------------------------------------------------------------
(* C22 *)

\* C22: no two commitments signed with the same key carry the same nonce, whether
\* the requests they were built for ran one after the other, concurrently, or within
\* the same tick of the clock.
C22_NoncesUniquePerSigner ==
    \A i \in issued, j \in issued :
        (i.req # j.req /\ i.key = j.key) => i.nonce # j.nonce

---------------------------------------------------------------------------
(* C26 *)

\* C26: with ARC_AGENT_CONTROLLER_ADDRESS configured, every settlement whose USDC
\* reached the recipient was paid by the controller's executeTransfer, which emitted
\* its audit record after verifying the signature; none was paid by another path.
C26_ControllerModePaysOnlyThroughController ==
    ControllerMode =>
        \A t \in MovedFunds :
            /\ t.via = "controller"
            /\ EventsWithNonce(settle[t.req].commitment.nonce) # {}

---------------------------------------------------------------------------
(* C27 *)

\* C27: every USDC transfer the compliance agent attempts, by whichever path, belongs
\* to a settlement whose sender screening, recipient screening and proof generation
\* have completed, with both screenings APPROVED and the proof decision AUTHORIZED.
C27_TransferOnlyAfterScreeningAndProof ==
    \A t \in transfers :
        /\ settle[t.req].sender = "APPROVED"
        /\ settle[t.req].recipient = "APPROVED"
        /\ settle[t.req].decision = "AUTHORIZED"

\* a transfer was attempted for one settlement while the prover is the real one and
\* the other settlement ended without any transfer
C27_Witness ==
    /\ agentEnv.proverBuilt
    /\ \E t \in transfers, r \in SettleIds :
          /\ settle[t.req].pc = "done"
          /\ settle[r].pc = "done"
          /\ settle[r].sender = "APPROVED"
          /\ settle[r].recipient = "APPROVED"
          /\ settle[r].decision = "DENIED"
          /\ \A u \in transfers : u.req # r

---------------------------------------------------------------------------
(* C23 *)

\* C23: whenever the oracle of a decision request was unavailable or answered with
\* output not of the agreed shape, the service's answer to that request denies: it
\* is not an approval and the commitment built for it does not carry decision 1.
C23_OracleFailureDenies ==
    decided.oracle \in OracleFailed => (~decided.approved /\ decided.decision # 1)

---------------------------------------------------------------------------
(* C30 *)

\* C30: every transfer request that /transfer/execute has accepted names a
\* complianceProofHash that an earlier /compliance/check issued with an approved
\* result.
C30_TransferOnlyForApprovedCheck ==
    \A h \in gatewayTransfers :
        \E check \in complianceChecks : check.proofHash = h /\ check.approved

---------------------------------------------------------------------------
(* C24, C29 *)

MissingKeyErrors == {"PRIVATE_KEY_required", "missing_private_key", "missing_attestor_key"}

C29_PaidFailureFallsBackToLocal ==
    (uiAnswer.route = "/api/approve" /\ uiAnswer.paid \notin {"none", "paidProof"}) =>
        /\ uiAnswer.status = 200
        /\ uiAnswer.error = Null
        /\ uiAnswer.payment = Null
        /\ uiAnswer.jolt \in {"joltMissing", "localProof", "proveError"}

C29_Witness ==
    /\ uiAnswer.route = "/api/approve"
    /\ uiAnswer.paid = "paymentFailed"
    /\ uiAnswer.jolt = "localProof"

---------------------------------------------------------------------------
(* C25 *)

\* a request with a payment proof is verified again: the proof is the one of the
\* latest exchange and the transaction it refers to is as the ledger showed it then
SameProofSameLedger ==
    /\ exchange.header = "payment"
    /\ exchange'.header = "payment"
    /\ chain' = chain
    /\ exchange'.payment = exchange.payment
    /\ exchange'.ledgerTx = exchange.ledgerTx

---------------------------------------------------------------------------
(* C28 *)

\* C28: footage is released only for a proof whose transaction is, on the ledger, a
\* successful USDC payment of at least the price to WitnessBot, and a proof accepted
\* from the receipt cache is one that a ledger query has confirmed to be such a payment.
C28_FootageOnlyForConfirmedPayment ==
    footage.status = 200 =>
        /\ ConfirmedPaymentToWitness(footage.tx)
        /\ footage.source = "cache" => footage.proof \in ledgerConfirmed

---------------------------------------------------------------------------
(* C31 *)

\* the call executeTransfer(to, amount, c, sig) would succeed in the current state
WouldPay(to, amount, c, sig) ==
    ExecuteTransferOutcome(Storage, now, owner, to, amount, c, sig).result = "ok"

\* C31: a signed commitment pays one recipient and one amount only: whenever the gate
\* would pay on a commitment and its signature, every call that presents the same
\* commitment and signature and would also be paid names the same recipient and amount.
C31_SignedCommitmentFixesRecipientAndAmount ==
    \A c \in Commitments :
        \A sig \in Signatures(c) :
            \A to1 \in Accounts, to2 \in Accounts, a1 \in Amounts, a2 \in Amounts :
                (WouldPay(to1, a1, c, sig) /\ WouldPay(to2, a2, c, sig))
                    => (to1 = to2 /\ a1 = a2)

---------------------------------------------------------------------------
(* C36 *)

\* what the last call added to (or took from) the custody balance
CustodyDelta ==
    IF last.result # "ok" THEN 0
    ELSE IF last.op = "deposit" THEN last.amount
    ELSE IF last.op \in {"withdraw", "executeTransfer"} THEN 0 - last.amount
    ELSE 0

---------------------------------------------------------------------------
(* C32 *)

\* C32: a /prove request that started the prover is sent at most one response, and
\* exactly one once the fast-mode timer or the close event has fired, in either
\* order, when both have fired, and when the prover failed.
C32_ExactlyOneResponse ==
    \A r \in ProveRequests :
        /\ Len(prove[r].responses) <= 1
        /\ (prove[r].timer = "fired" \/ prove[r].pc = "closed")
              => Len(prove[r].responses) = 1

\* the timer fired and the killed prover closed afterwards: one response
C32_Witness ==
    \E r \in ProveRequests :
        /\ prove[r].timer = "fired"
        /\ prove[r].pc = "closed"
        /\ prove[r].killed
        /\ Len(prove[r].responses) = 1

\* the prover failed before the timer: one error response and the timer cleared
C32_WitnessProverFailed ==
    \E r \in ProveRequests :
        /\ prove[r].timer = "cleared"
        /\ prove[r].code = "1"
        /\ prove[r].responses = <<500>>

---------------------------------------------------------------------------
(* C33 *)

\* C33 as stated: DeliveryBot's budget never becomes negative, however concurrent
\* /robot/process-sensor requests interleave.
C33_BudgetNeverNegative == robotState.budget >= 0

---------------------------------------------------------------------------
(* C37 *)

\* request r's Gateway payment succeeded in this step
PaymentSucceeded(r) == sensor[r] = "paying" /\ sensor'[r] = "fetching"

---------------------------------------------------------------------------
(* C34 *)

\* C34: one call of X402Client.request sends at most one payment and at most two
\* HTTP requests; once the paid retry has been answered, also with 402, the call
\* has ended with exactly one payment and exactly two requests.
C34_OnePaymentTwoRequests ==
    \A c \in ClientCalls :
        /\ client[c].payments <= 1
        /\ client[c].fetches <= 2
        /\ client[c].paidStatus # 0 =>
              /\ client[c].pc = "done"
              /\ client[c].payments = 1
              /\ client[c].fetches = 2

\* the paid retry was answered with 402 again and the call ended there
C34_Witness ==
    \E c \in ClientCalls :
        /\ client[c].paidStatus = 402
        /\ client[c].pc = "done"
        /\ client[c].payments = 1
        /\ client[c].fetches = 2

---------------------------------------------------------------------------
(* C35 *)

\* C35 as stated: when the paid retry is answered with 402 again, request() ends by
\* throwing to its caller, never by returning the payment-required body.
C35_SecondPaymentRequiredThrows ==
    \A c \in ClientCalls :
        (client[c].paidStatus = 402 /\ client[c].pc = "done")
            => client[c].ended = "threw"

====
